---- MODULE Spec2Model ----
(***************************************************************************)
(* A model of the dispatch-demo operator dispatcher: dispatch keys and     *)
(* their priorities, dispatch key sets, the per-operator dispatch table    *)
(* and its kernel lookup, the operator registry with its callbacks, and    *)
(* the demo kernels of operator add with their nested redispatches.        *)
(***************************************************************************)
EXTENDS Integers, Sequences, FiniteSets, TLC

VARIABLES
    operators_,               \* Dispatcher::operators_: operator name -> handle (an object identity)
    heap,                     \* the live OperatorHandle objects: identity -> dispatch_table_
    nextHandle,               \* identities handed out so far by std::make_unique<OperatorHandle>
    registration_callbacks_,  \* Dispatcher::registration_callbacks_, in the order they were added
    cbLog,                    \* the calls the callbacks received, in order (the single caller of
                              \* SpecRegistry clears this record before each operation)
    profiling_enabled_,       \* Dispatcher::profiling_enabled_
    call_stats_,              \* Dispatcher::call_stats_
    globalState,              \* the GlobalDispatchState flags
    args,                     \* the IValueList of the call under way
    stack,                    \* the nested Dispatcher::call activations, outermost first
    trace,                    \* the kernels invoked by the call under way, in invocation order
    status,                   \* where the top-level call stands
    result,                   \* what the top-level call returned
    lastOp,                   \* the last operation issued by the caller, with what it returned
    lastReg,                  \* per operator name, the last of register/deregister issued on it
                              \* (in SpecKernels: per key, the last of setKernel/removeKernel;
                              \* in SpecValue: per IValue, the variant and payload last given to it)
    pc,                       \* per thread, its position inside registerOperator
    registry_mutex_,          \* Dispatcher::registry_mutex_: the thread holding it, or NoThread
    stats_mutex_,             \* Dispatcher::stats_mutex_: the thread holding it, or NoThread
    local                     \* per thread, the locals of its registerOperator activation

vars == <<operators_, heap, nextHandle, registration_callbacks_, cbLog,
          profiling_enabled_, call_stats_, globalState, args, stack, trace,
          status, result, lastOp, lastReg, pc, registry_mutex_, stats_mutex_, local>>

-----------------------------------------------------------------------------
(* DispatchKey and its priority table                                      *)

NumDispatchKeys == 7

DispatchKeys ==
    {"CPU", "CUDA", "Autograd", "Tracing", "Profiling", "Undefined", "CatchAll"}

\* the enumerator values of enum class DispatchKey
keyIndex(key) ==
    CASE key = "CPU" -> 0
      [] key = "CUDA" -> 1
      [] key = "Autograd" -> 2
      [] key = "Tracing" -> 3
      [] key = "Profiling" -> 4
      [] key = "Undefined" -> 5
      [] key = "CatchAll" -> 6

\* static_cast<DispatchKey>(i)
keyOfIndex(i) == CHOOSE key \in DispatchKeys : keyIndex(key) = i

\* the mutant of dispatchKeyPriority that ranks the keys by enumerator value
enumeratorAsPriority(key) == keyIndex(key)

dispatchKeyPriority(key) ==
    CASE key = "Autograd" -> 0
      [] key = "Tracing" -> 1
      [] key = "Profiling" -> 2
      [] key = "CPU" -> 10
      [] key = "CUDA" -> 11
      [] key = "CatchAll" -> 100
      [] key = "Undefined" -> 255
      [] OTHER -> 128

isBackendKey(key) == key = "CPU" \/ key = "CUDA"

isFunctionalityKey(key) == key = "Autograd" \/ key = "Tracing" \/ key = "Profiling"

-----------------------------------------------------------------------------
(* DispatchKeySet: the bitset is modelled by the set of keys whose bit is  *)
(* set.                                                                    *)

KeySets == SUBSET DispatchKeys

\* the loop of toVector: the keys of ks in enumerator order
keysInEnumOrder(ks) ==
    SelectSeq([i \in 1..NumDispatchKeys |-> keyOfIndex(i - 1)], LAMBDA key : key \in ks)

\* one step of the sort: key put before the first element of a sorted
\* sequence that has a larger priority number
RECURSIVE insertByPriority(_, _)
insertByPriority(key, sorted) ==
    IF sorted = <<>> THEN <<key>>
    ELSE IF dispatchKeyPriority(key) < dispatchKeyPriority(Head(sorted))
         THEN <<key>> \o sorted
         ELSE <<Head(sorted)>> \o insertByPriority(key, Tail(sorted))

\* std::sort with the comparator dispatchKeyPriority(a) < dispatchKeyPriority(b)
RECURSIVE sortByPriority(_)
sortByPriority(keys) ==
    IF keys = <<>> THEN <<>>
    ELSE insertByPriority(Head(keys), sortByPriority(Tail(keys)))

\* the mutant of toVector that leaves the sort out
toVectorUnsorted(ks) == keysInEnumOrder(ks)

toVector(ks) == sortByPriority(keysInEnumOrder(ks))

\* the mutant of highestPriorityKey that returns the key sorted last
lowestPriorityKey(ks) ==
    IF ks = {} THEN "Undefined" ELSE toVector(ks)[Len(toVector(ks))]

highestPriorityKey(ks) ==
    IF ks = {} THEN "Undefined"
    ELSE LET keys_by_priority == sortByPriority(keysInEnumOrder(ks))
         IN  IF keys_by_priority = <<>> THEN "Undefined" ELSE keys_by_priority[1]

\* DispatchKeySet::add, remove and has: raw_repr_.set, reset and test
add(ks, key) == ks \cup {key}

remove(ks, key) == ks \ {key}

has(ks, key) == key \in ks

\* ~raw_repr_, over the NumDispatchKeys bits of the bitset
complement(ks) == DispatchKeys \ ks

\* operator|=, operator&= and operator-= (raw_repr_ &= ~other.raw_repr_),
\* as the value they leave in *this
opOrAssign(ks, other) == ks \cup other

opAndAssign(ks, other) == ks \cap other

\* the mutant of opMinusAssign that forgets to complement its operand
opMinusAssignUncomplemented(ks, other) == ks \cap other

opMinusAssign(ks, other) == ks \cap complement(other)

\* operator|, operator& and operator-: the in-place operator applied to a
\* copy of *this
opOr(ks, other) == LET copy == ks IN opOrAssign(copy, other)

opAnd(ks, other) == LET copy == ks IN opAndAssign(copy, other)

opMinus(ks, other) == LET copy == ks IN opMinusAssign(copy, other)

-----------------------------------------------------------------------------
(* OperatorHandle: dispatch_table_ is a function from the keys that have a *)
(* kernel to the kernel (named by the function it wraps).                  *)

nullptr == [key |-> "nullptr", fn |-> "nullptr"]

\* a pointer to the table entry of key
kernelAt(table, key) == [key |-> key, fn |-> table[key]]

\* the mutant of setKernel that keeps the kernel a key already has
setKernelIfAbsent(table, key, kernel) ==
    [k \in (DOMAIN table) \cup {key} |-> IF k \in DOMAIN table THEN table[k] ELSE kernel]

setKernel(table, key, kernel) ==
    [k \in (DOMAIN table) \cup {key} |-> IF k = key THEN kernel ELSE table[k]]

removeKernel(table, key) ==
    [k \in (DOMAIN table) \ {key} |-> table[k]]

hasKernel(table, key) == key \in DOMAIN table

\* the loop of findKernel over the sorted keys
RECURSIVE firstRegistered(_, _)
firstRegistered(table, keys) ==
    IF keys = <<>> THEN nullptr
    ELSE IF Head(keys) \in DOMAIN table
         THEN kernelAt(table, Head(keys))
         ELSE firstRegistered(table, Tail(keys))

\* the mutant of findKernel that walks the keys in enumerator order
findKernelUnsorted(table, ks) ==
    LET hit == firstRegistered(table, keysInEnumOrder(ks))
    IN  IF hit # nullptr THEN hit
        ELSE IF "CatchAll" \in DOMAIN table THEN kernelAt(table, "CatchAll")
        ELSE nullptr

\* the mutant of findKernel without the CatchAll fallback
findKernelNoFallback(table, ks) == firstRegistered(table, toVector(ks))

\* the mutant of findKernel that passes over default-constructed kernels
findKernelSkippingInvalid(table, ks) ==
    LET valid == [key \in {k \in DOMAIN table : table[k] # "invalid"} |-> table[key]]
        hit == firstRegistered(valid, toVector(ks))
    IN  IF hit # nullptr THEN hit
        ELSE IF "CatchAll" \in DOMAIN valid THEN kernelAt(valid, "CatchAll")
        ELSE nullptr

findKernel(table, ks) ==
    LET hit == firstRegistered(table, toVector(ks))
    IN  IF hit # nullptr THEN hit
        ELSE IF "CatchAll" \in DOMAIN table THEN kernelAt(table, "CatchAll")
        ELSE nullptr

getRegisteredKeys(table) == sortByPriority(keysInEnumOrder(DOMAIN table))

-----------------------------------------------------------------------------
(* GlobalDispatchState, TensorImpl and the key set of an argument list     *)

GlobalStates ==
    [autograd_enabled_ : BOOLEAN, tracing_enabled_ : BOOLEAN, profiling_enabled_ : BOOLEAN]

\* the three setters of GlobalDispatchState
GlobalFlags == {"autograd_enabled_", "tracing_enabled_", "profiling_enabled_"}

\* setAutogradEnabled, setTracingEnabled, setProfilingEnabled
setFlag(g, flag, enabled) == [g EXCEPT ![flag] = enabled]

computeFunctionalityKeys(g) ==
    (IF g.autograd_enabled_ THEN {"Autograd"} ELSE {})
        \cup (IF g.tracing_enabled_ THEN {"Tracing"} ELSE {})
        \cup (IF g.profiling_enabled_ THEN {"Profiling"} ELSE {})

\* a tensor as the dispatcher reads it: TensorImpl::backend_key_ and requires_grad_
Tensors == [backend_key_ : {"CPU", "CUDA"}, requires_grad_ : BOOLEAN]

make_tensor_cpu == [backend_key_ |-> "CPU", requires_grad_ |-> FALSE]

make_tensor_cuda == [backend_key_ |-> "CUDA", requires_grad_ |-> FALSE]

\* an empty std::shared_ptr<TensorImpl>
nullTensor == [backend_key_ |-> "null", requires_grad_ |-> FALSE]

\* the mutant of keySet that leaves the global functionality keys out
keySetOfTensorOnly(tensor, g) ==
    {tensor.backend_key_} \cup (IF tensor.requires_grad_ THEN {"Autograd"} ELSE {})

\* TensorImpl::keySet
keySet(tensor, g) ==
    ({tensor.backend_key_} \cup (IF tensor.requires_grad_ THEN {"Autograd"} ELSE {}))
        \cup computeFunctionalityKeys(g)

\* the loop of dispatcher::computeDispatchKeySet: the union of the tensors' key sets
RECURSIVE combinedKeySet(_, _)
combinedKeySet(tensors, g) ==
    IF tensors = <<>> THEN {}
    ELSE (IF Head(tensors) # nullTensor THEN keySet(Head(tensors), g) ELSE {})
             \cup combinedKeySet(Tail(tensors), g)

\* dispatcher::computeDispatchKeySet(tensors)
computeDispatchKeySet(tensors, g) ==
    LET combined_set == combinedKeySet(tensors, g)
    IN  IF combined_set = {} THEN computeFunctionalityKeys(g) ELSE combined_set

\* IValue: the active tag and its payload
IValueTensor(tensor) == [tag |-> "Tensor", payload |-> tensor]

IValueDouble(value) == [tag |-> "Double", payload |-> value]

IValueTensorList(tensors) == [tag |-> "TensorList", payload |-> tensors]

isTensor(v) == v.tag = "Tensor"

isTensorList(v) == v.tag = "TensorList"

\* the tensors a wrapper kernel of main.cpp collects: Tensor arguments only
RECURSIVE wrapperTensorsOf(_)
wrapperTensorsOf(a) ==
    IF a = <<>> THEN <<>>
    ELSE (IF isTensor(Head(a)) THEN <<Head(a).payload>> ELSE <<>>)
             \o wrapperTensorsOf(Tail(a))

\* the mutant of handleTensorsOf that passes over the tensor lists
tensorArgumentsOnly(a) == wrapperTensorsOf(a)

\* the tensors OperatorHandle::computeDispatchKeySet collects: Tensor and TensorList arguments
RECURSIVE handleTensorsOf(_)
handleTensorsOf(a) ==
    IF a = <<>> THEN <<>>
    ELSE (IF isTensor(Head(a)) THEN <<Head(a).payload>>
          ELSE IF isTensorList(Head(a)) THEN Head(a).payload
          ELSE <<>>) \o handleTensorsOf(Tail(a))

\* OperatorHandle::computeDispatchKeySet(args)
handleComputeDispatchKeySet(a, g) == computeDispatchKeySet(handleTensorsOf(a), g)

-----------------------------------------------------------------------------
(* The state shared by every specification                                 *)

MaxDepth == 6

OperatorNames == {"add", "op_x"}

EmptyMap == [x \in {} |-> x]

NoThread == "none"

\* what a call hands back: a list of IValues, or the exception it threw
NoResult == [kind |-> "none", error |-> "none", value |-> <<>>]

Returned(list) == [kind |-> "value", error |-> "none", value |-> list]

Thrown(error, detail) == [kind |-> "error", error |-> error, value |-> detail]

NoOp == [op |-> "none", arg |-> "none", ret |-> 0, found |-> FALSE]

\* the dispatch table registerOperators of main.cpp gives operator add
addTable ==
    ("CPU" :> "add_cpu_kernel") @@ ("CUDA" :> "add_cuda_kernel")
        @@ ("Autograd" :> "add_autograd_kernel") @@ ("Tracing" :> "add_tracing_kernel")
        @@ ("Profiling" :> "add_profiling_kernel")

-----------------------------------------------------------------------------
(* Dispatcher::call and the kernels of operator add                        *)

\* a kernel a client registers with setKernel under Tracing: it redispatches
\* as add_tracing_kernel does and, once the redispatch has returned, throws
throwsAfterRedispatch(fn) == fn = "client_tracing_kernel"

isWrapperKernel(fn) ==
    fn \in {"add_autograd_kernel", "add_tracing_kernel", "add_profiling_kernel"}
        \/ throwsAfterRedispatch(fn)

isBackendKernel(fn) == fn \in {"add_cpu_kernel", "add_cuda_kernel"}

\* the key a wrapper kernel removes before it redispatches
removedKey(fn) ==
    CASE fn = "add_autograd_kernel" -> "Autograd"
      [] fn = "add_tracing_kernel" -> "Tracing"
      [] fn = "client_tracing_kernel" -> "Tracing"
      [] fn = "add_profiling_kernel" -> "Profiling"

\* the mutant of redispatchKeySet that forgets to remove the wrapper's key
redispatchKeySetUnmasked(frame, a, g) == computeDispatchKeySet(wrapperTensorsOf(a), g)

\* the key set a wrapper kernel passes to callOp: recomputed from the
\* arguments, minus its own key
redispatchKeySet(frame, a, g) ==
    computeDispatchKeySet(wrapperTensorsOf(a), g) \ {removedKey(frame.fn)}

\* the argument check of add_cpu_kernel and add_cuda_kernel
backendAccepts(a) == Len(a) = 2 /\ isTensor(a[1]) /\ isTensor(a[2])

\* what a backend kernel returns
backendResult(fn) ==
    IF fn = "add_cpu_kernel" THEN <<IValueTensor(make_tensor_cpu)>>
    ELSE <<IValueTensor(make_tensor_cuda)>>

\* findOperator, findKernel and the validity check of callBoxed: the kernel
\* Dispatcher::call is about to run, or the exception it throws instead
selectKernel(name, ks) ==
    IF name \notin DOMAIN operators_
    THEN [error |-> "UnknownOperator", kernel |-> nullptr]
    ELSE LET kernel == findKernel(heap[operators_[name]], ks)
         IN  IF kernel = nullptr THEN [error |-> "NoKernel", kernel |-> nullptr]
             ELSE IF kernel.fn = "invalid" THEN [error |-> "InvalidKernel", kernel |-> kernel]
             ELSE [error |-> "none", kernel |-> kernel]

\* the mutant of updateCallStats that counts the key and not the call
updateCallStatsKeyOnly(stats, name, key) ==
    LET old == IF name \in DOMAIN stats THEN stats[name]
               ELSE [call_count |-> 0, key_counts |-> EmptyMap]
        counts == old.key_counts
    IN  [n \in (DOMAIN stats) \cup {name} |->
            IF n = name
            THEN [call_count |-> old.call_count,
                  key_counts |-> [k \in (DOMAIN counts) \cup {key} |->
                                     IF k = key
                                     THEN (IF k \in DOMAIN counts THEN counts[k] ELSE 0) + 1
                                     ELSE counts[k]]]
            ELSE stats[n]]

\* Dispatcher::updateCallStats
updateCallStats(stats, name, key) ==
    LET old == IF name \in DOMAIN stats THEN stats[name]
               ELSE [call_count |-> 0, key_counts |-> EmptyMap]
        counts == old.key_counts
        key_counts == [k \in (DOMAIN counts) \cup {key} |->
                          IF k = key
                          THEN (IF k \in DOMAIN counts THEN counts[k] ELSE 0) + 1
                          ELSE counts[k]]
    IN  [n \in (DOMAIN stats) \cup {name} |->
            IF n = name
            THEN [call_count |-> old.call_count + 1, key_counts |-> key_counts]
            ELSE stats[n]]

\* the key Dispatcher::call counts once the handle's call has returned, the
\* flags being g by then: call(name, args) computes the key set of args
\* anew, call(name, ks, args) takes the ks it was given
countedKey(frame, g) ==
    IF frame.top
    THEN highestPriorityKey(handleComputeDispatchKeySet(args, g))
    ELSE highestPriorityKey(frame.ks)

\* the mutant of catchesException in which the wrapper kernels catch what
\* their redispatch throws
wrapperCatches(frame) == isWrapperKernel(frame.fn)

\* whether the activation has a handler for an exception passing through it:
\* Dispatcher::call, OperatorHandle::call, callBoxed and the kernels of
\* main.cpp have no try block
catchesException(frame) == FALSE

\* the activations left once an exception has passed through frames, the
\* last one first: it stops at the first activation that catches it
RECURSIVE unwind(_)
unwind(frames) ==
    IF frames = <<>> THEN <<>>
    ELSE IF catchesException(frames[Len(frames)]) THEN frames
    ELSE unwind(SubSeq(frames, 1, Len(frames) - 1))

\* exception is thrown below the activations frames: it reaches the caller of
\* the top-level call, unless an activation catches it and carries on
raise(frames, exception) ==
    LET rest == unwind(frames)
    IN  /\ result' = exception
        /\ IF rest = <<>>
           THEN stack' = <<>> /\ status' = "failed"
           ELSE /\ stack' = [rest EXCEPT ![Len(rest)].phase = "resumed"]
                /\ status' = "running"

\* Dispatcher::call up to the entry of the selected kernel; an exception
\* unwinds every activation up to the caller of the top-level call
enterCall(name, ks, top) ==
    LET sel == selectKernel(name, ks)
    IN  IF sel.error = "none"
        THEN /\ stack' = Append(stack, [name |-> name, fn |-> sel.kernel.fn,
                                        key |-> sel.kernel.key, ks |-> ks,
                                        top |-> top, phase |-> "entered"])
             /\ trace' = Append(trace, [ev |-> "invoke", key |-> sel.kernel.key,
                                        fn |-> sel.kernel.fn])
             /\ status' = "running"
             /\ result' = result
        ELSE /\ trace' = trace
             /\ raise(stack, Thrown(sel.error, <<name, toVector(ks)>>))

\* the kernel on top of the stack returns list, leaving the flags as g:
\* Dispatcher::call counts the call when profiling is enabled and hands list
\* to its caller
leaveCallAfter(list, g) ==
    LET frame == stack[Len(stack)]
        rest == SubSeq(stack, 1, Len(stack) - 1)
    IN  /\ call_stats_' = IF profiling_enabled_
                          THEN updateCallStats(call_stats_, frame.name, countedKey(frame, g))
                          ELSE call_stats_
        /\ result' = Returned(list)
        /\ IF rest = <<>>
           THEN stack' = <<>> /\ status' = "returned"
           ELSE /\ stack' = [rest EXCEPT ![Len(rest)].phase = "resumed"]
                /\ status' = "running"

\* the same for a kernel that leaves the flags alone
leaveCall(list) == leaveCallAfter(list, globalState)

registryVars == <<operators_, heap, nextHandle, registration_callbacks_, cbLog, lastReg>>

threadVars == <<pc, registry_mutex_, stats_mutex_, local>>

\* callOp(name, args): the top-level Dispatcher::call(name, args)
CallOp(name) ==
    /\ status = "idle"
    /\ lastOp' = [op |-> "call", arg |-> name, ret |-> 0, found |-> name \in DOMAIN operators_]
    /\ enterCall(name, handleComputeDispatchKeySet(args, globalState), TRUE)
    /\ UNCHANGED <<registryVars, threadVars, profiling_enabled_, call_stats_,
                   globalState, args>>

\* a wrapper kernel removes its key and calls callOp("add", ks, args)
Redispatch ==
    /\ status = "running"
    /\ Len(stack) < MaxDepth
    /\ LET frame == stack[Len(stack)]
       IN  /\ isWrapperKernel(frame.fn)
           /\ frame.phase = "entered"
           /\ enterCall("add", redispatchKeySet(frame, args, globalState), FALSE)
    /\ UNCHANGED <<registryVars, threadVars, profiling_enabled_, call_stats_,
                   globalState, args, lastOp>>

\* the redispatch that finds no room left on the call stack: the process dies
StackOverflow ==
    /\ status = "running"
    /\ Len(stack) = MaxDepth
    /\ LET frame == stack[Len(stack)]
       IN  isWrapperKernel(frame.fn) /\ frame.phase = "entered"
    /\ status' = "stack_overflow"
    /\ UNCHANGED <<registryVars, threadVars, profiling_enabled_, call_stats_,
                   globalState, args, lastOp, stack, trace, result>>

\* add_cpu_kernel or add_cuda_kernel: throws on anything but two tensors,
\* else returns a new tensor of its backend
BackendKernel ==
    /\ status = "running"
    /\ LET frame == stack[Len(stack)]
       IN  /\ isBackendKernel(frame.fn)
           /\ IF backendAccepts(args)
              THEN leaveCall(backendResult(frame.fn)) /\ trace' = trace
              ELSE /\ raise(SubSeq(stack, 1, Len(stack) - 1),
                            Thrown("KernelError", <<frame.fn>>))
                   /\ UNCHANGED <<call_stats_, trace>>
    /\ UNCHANGED <<registryVars, threadVars, profiling_enabled_, globalState, args, lastOp>>

\* the rest of a wrapper kernel once its redispatch has returned: the
\* trailing side effect, then the result handed on unchanged
WrapperReturn ==
    /\ status = "running"
    /\ LET frame == stack[Len(stack)]
       IN  /\ isWrapperKernel(frame.fn)
           /\ ~throwsAfterRedispatch(frame.fn)
           /\ frame.phase = "resumed"
           /\ trace' = Append(trace, [ev |-> "trailing", key |-> frame.key, fn |-> frame.fn])
           /\ leaveCall(result.value)
    /\ UNCHANGED <<registryVars, threadVars, profiling_enabled_, globalState, args, lastOp>>

\* the rest of the client's Tracing kernel once its redispatch has returned:
\* it throws
WrapperThrow ==
    /\ status = "running"
    /\ LET frame == stack[Len(stack)]
       IN  /\ throwsAfterRedispatch(frame.fn)
           /\ frame.phase = "resumed"
           /\ raise(SubSeq(stack, 1, Len(stack) - 1), Thrown("KernelError", <<frame.fn>>))
    /\ UNCHANGED <<registryVars, threadVars, profiling_enabled_, call_stats_, globalState,
                   args, lastOp, trace>>

\* the longest std::vector<Tensor> given as a TensorList argument
MaxListLen == 1

\* the vectors of tensors of the TensorList arguments
ArgTensorLists == UNION {[1..n -> Tensors] : n \in 0..MaxListLen}

\* the argument lists of the calls: up to two values, each a Tensor, a
\* TensorList or a Double
ArgValues ==
    {IValueTensor(t) : t \in Tensors} \cup {IValueTensorList(l) : l \in ArgTensorLists}
        \cup {IValueDouble(3)}

ArgLists ==
    {<<>>} \cup {<<v>> : v \in ArgValues} \cup {<<v, w>> : v \in ArgValues, w \in ArgValues}

Threads == {"t1", "t2", "t3"}

\* a thread's activation of registerOperator or deregisterOperator: the
\* operation, its name argument, its handle, the index of the loop over the
\* callbacks and the Dispatcher method the running callback is calling
NoLocal == [op |-> "none", name |-> "none", handle |-> 0, next |-> 0, inside |-> "none"]

\* operator add registered with the demo kernels, no call made yet
InitCall ==
    /\ operators_ = ("add" :> 1)
    /\ heap = (1 :> addTable)
    /\ nextHandle = 1
    /\ registration_callbacks_ = <<>>
    /\ cbLog = <<>>
    /\ profiling_enabled_ \in BOOLEAN
    /\ call_stats_ = EmptyMap
    /\ globalState \in GlobalStates
    /\ args \in ArgLists
    /\ stack = <<>>
    /\ trace = <<>>
    /\ status = "idle"
    /\ result = NoResult
    /\ lastOp = NoOp
    /\ lastReg = [n \in OperatorNames |-> IF n = "add" THEN "register" ELSE "none"]
    /\ pc = [t \in Threads |-> "idle"]
    /\ registry_mutex_ = NoThread
    /\ stats_mutex_ = NoThread
    /\ local = [t \in Threads |-> NoLocal]

NextCall ==
    \/ \E name \in OperatorNames : CallOp(name)
    \/ Redispatch
    \/ StackOverflow
    \/ BackendKernel
    \/ WrapperReturn

SpecCall == InitCall /\ [][NextCall]_vars

\* the table of add after a client has replaced the Tracing kernel by its own
\* with setKernel
clientTable == setKernel(addTable, "Tracing", "client_tracing_kernel")

\* operator add with the demo kernels, or with the client's Tracing kernel
InitClient ==
    /\ operators_ = ("add" :> 1)
    /\ heap \in {(1 :> addTable), (1 :> clientTable)}
    /\ nextHandle = 1
    /\ registration_callbacks_ = <<>>
    /\ cbLog = <<>>
    /\ profiling_enabled_ \in BOOLEAN
    /\ call_stats_ = EmptyMap
    /\ globalState \in GlobalStates
    /\ args \in ArgLists
    /\ stack = <<>>
    /\ trace = <<>>
    /\ status = "idle"
    /\ result = NoResult
    /\ lastOp = NoOp
    /\ lastReg = [n \in OperatorNames |-> IF n = "add" THEN "register" ELSE "none"]
    /\ pc = [t \in Threads |-> "idle"]
    /\ registry_mutex_ = NoThread
    /\ stats_mutex_ = NoThread
    /\ local = [t \in Threads |-> NoLocal]

NextClient ==
    \/ \E name \in OperatorNames : CallOp(name)
    \/ Redispatch
    \/ StackOverflow
    \/ BackendKernel
    \/ WrapperReturn
    \/ WrapperThrow

SpecClient == InitClient /\ [][NextClient]_vars

\* a CPU kernel of the client that switches tracing on while it runs
changesFlags(fn) == fn = "client_cpu_kernel"

\* the table of add after the client has replaced the CPU kernel by its own
flagTable == setKernel(addTable, "CPU", "client_cpu_kernel")

\* client_cpu_kernel: GlobalDispatchState::instance().setTracingEnabled(true),
\* then it returns a new CPU tensor
ClientKernel ==
    /\ status = "running"
    /\ LET frame == stack[Len(stack)]
           g == setFlag(globalState, "tracing_enabled_", TRUE)
       IN  /\ changesFlags(frame.fn)
           /\ globalState' = g
           /\ leaveCallAfter(<<IValueTensor(make_tensor_cpu)>>, g)
    /\ UNCHANGED <<registryVars, threadVars, profiling_enabled_, args, lastOp, trace>>

\* operator add with the demo kernels, or with the client's CPU kernel
InitSnapshot ==
    /\ operators_ = ("add" :> 1)
    /\ heap \in {(1 :> addTable), (1 :> flagTable)}
    /\ nextHandle = 1
    /\ registration_callbacks_ = <<>>
    /\ cbLog = <<>>
    /\ profiling_enabled_ \in BOOLEAN
    /\ call_stats_ = EmptyMap
    /\ globalState \in GlobalStates
    /\ args \in ArgLists
    /\ stack = <<>>
    /\ trace = <<>>
    /\ status = "idle"
    /\ result = NoResult
    /\ lastOp = NoOp
    /\ lastReg = [n \in OperatorNames |-> IF n = "add" THEN "register" ELSE "none"]
    /\ pc = [t \in Threads |-> "idle"]
    /\ registry_mutex_ = NoThread
    /\ stats_mutex_ = NoThread
    /\ local = [t \in Threads |-> NoLocal]

NextSnapshot ==
    \/ \E name \in OperatorNames : CallOp(name)
    \/ Redispatch
    \/ StackOverflow
    \/ BackendKernel
    \/ WrapperReturn
    \/ ClientKernel

SpecSnapshot == InitSnapshot /\ [][NextSnapshot]_vars

-----------------------------------------------------------------------------
(* Claims about one top-level call on operator add (SpecCall)              *)

\* the key set the top-level call computes from its arguments
topKeySet == handleComputeDispatchKeySet(args, globalState)

functionalityKeysOf(ks) == {key \in ks : isFunctionalityKey(key)}

backendKeysOf(ks) == {key \in ks : isBackendKey(key)}

\* the keys of the kernels invoked so far, in invocation order
invokedKeys ==
    LET invocations == SelectSeq(trace, LAMBDA e : e.ev = "invoke")
    IN  [i \in 1..Len(invocations) |-> invocations[i].key]

isPrefix(p, q) == Len(p) <= Len(q) /\ \A i \in 1..Len(p) : p[i] = q[i]

callFinished == status \in {"returned", "failed"}

callOnAdd == lastOp.op = "call" /\ lastOp.arg = "add"

\* C2: a call on add with two tensors whose key set holds two or more
\* functionality keys invokes the kernels of the members of the set in
\* ascending priority-number order, each exactly once, the backend kernel
\* last: at every moment the kernels invoked so far are a prefix of the
\* ordered members, and the call ends having invoked all of them.
C2_AscendingOrderEachOnce ==
    (callOnAdd /\ backendAccepts(args) /\ Cardinality(functionalityKeysOf(topKeySet)) >= 2)
        => /\ isPrefix(invokedKeys, toVector(topKeySet))
           /\ status # "stack_overflow"
           /\ callFinished => invokedKeys = toVector(topKeySet)

\* C3: every call on add with two tensors returns: the chain of nested redispatches never
\* exhausts the call stack, and no activation repeats the kernel and key set
\* of an activation that encloses it (which, the kernels being deterministic,
\* would repeat for ever).
C3_RedispatchChainFinite ==
    (callOnAdd /\ backendAccepts(args))
        => /\ status # "stack_overflow"
           /\ \A i \in 1..Len(stack) : \A j \in 1..Len(stack) :
                  i < j => <<stack[i].fn, stack[i].ks>> # <<stack[j].fn, stack[j].ks>>

\* C4: within a call on add with two tensors, the key set a wrapper kernel
\* passes on is a strict subset of the key set it was selected with, and no
\* wrapper kernel is selected twice within one top-level call.
C4_RedispatchStrictlyReduces ==
    (callOnAdd /\ backendAccepts(args))
        => /\ \A i \in 2..Len(stack) :
                  stack[i].ks \subseteq stack[i - 1].ks /\ stack[i].ks # stack[i - 1].ks
           /\ \A i \in 1..Len(stack) : \A j \in 1..Len(stack) :
                  (i < j /\ isWrapperKernel(stack[i].fn)) => stack[i].fn # stack[j].fn

\* the tensors of the arguments are all given as Tensor values
tensorsAsTensorValues(a) == \A i \in 1..Len(a) : ~isTensorList(a[i])

\* C5: a call on add whose key set is one backend key and at most one
\* functionality key invokes the wrapper of that functionality key (if any)
\* once, then the backend kernel once, and nothing else; when the call
\* returns, its result is the backend kernel's result; called with two
\* tensors it does return.
C5_WrapperOnceThenBackend ==
    LET ks == topKeySet
        f == functionalityKeysOf(ks)
        b == backendKeysOf(ks)
    IN  (callOnAdd /\ Cardinality(b) = 1 /\ Cardinality(f) <= 1 /\ ks = f \cup b)
            => LET backend == CHOOSE key \in b : TRUE
                   expected == (IF f = {} THEN <<>> ELSE <<CHOOSE key \in f : TRUE>>)
                                   \o <<backend>>
               IN  /\ status # "stack_overflow"
                   /\ isPrefix(invokedKeys, expected)
                   /\ callFinished => invokedKeys = expected
                   /\ status = "returned"
                          => result = Returned(<<IValueTensor(
                                 [backend_key_ |-> backend, requires_grad_ |-> FALSE])>>)
                   /\ (backendAccepts(args) /\ ~ENABLED NextCall) => status = "returned"

\* what is left of C5 in the code: the same for the calls whose tensors are
\* all Tensor arguments, which the wrappers of main.cpp do collect
wrapperOnceThenBackendForTensorValues ==
    tensorsAsTensorValues(args) => C5_WrapperOnceThenBackend

\* two CPU tensors, one requiring a gradient, no global flag: the call has
\* returned after Autograd, then CPU
returnedThroughAutograd ==
    /\ callOnAdd
    /\ status = "returned"
    /\ topKeySet = {"CPU", "Autograd"}
    /\ invokedKeys = <<"Autograd", "CPU">>

\* a TensorList of one CPU tensor that requires a gradient, no global flag:
\* the key set of the call is {CPU, Autograd}, the Autograd wrapper has
\* redispatched with the empty key set and the call has failed with
\* NoKernel before any backend kernel ran
failedAfterAutograd ==
    /\ callOnAdd
    /\ status = "failed"
    /\ args = <<IValueTensorList(<<[backend_key_ |-> "CPU", requires_grad_ |-> TRUE]>>)>>
    /\ topKeySet = {"CPU", "Autograd"}
    /\ invokedKeys = <<"Autograd">>
    /\ result.error = "NoKernel"

\* call_stats_[name].call_count, 0 when the map has no entry for name
callCountOf(stats, name) ==
    IF name \in DOMAIN stats THEN stats[name].call_count ELSE 0

\* call_stats_[name].key_counts[key], 0 when there is no such entry
keyCountOf(stats, name, key) ==
    IF name \in DOMAIN stats /\ key \in DOMAIN stats[name].key_counts
    THEN stats[name].key_counts[key]
    ELSE 0

\* the member of the non-empty key set ks with the smallest priority number
smallestPriorityKey(ks) ==
    CHOOSE key \in ks : \A other \in ks : dispatchKeyPriority(key) <= dispatchKeyPriority(other)

\* the step in which the Dispatcher::call on top of the stack returns a value
callReturns ==
    /\ stack # <<>>
    /\ Len(stack') = Len(stack) - 1
    /\ result'.kind = "value"
    /\ status' \in {"running", "returned"}

\* C14: a Dispatcher::call (top-level or nested) that returns while
\* profiling is enabled adds one to the call_count of its operator and one
\* to one per-key counter, that of the highest-priority key of the key set
\* the call dispatched with, and changes no other counter; with profiling
\* disabled, and in every step that is not the return of a call, the
\* statistics map stays as it is.
C14_ProfilingCountsEachCall ==
    [][IF callReturns /\ profiling_enabled_
       THEN LET frame == stack[Len(stack)]
                counted == smallestPriorityKey(frame.ks)
            IN  \A n \in OperatorNames :
                    /\ callCountOf(call_stats_', n)
                           = callCountOf(call_stats_, n) + (IF n = frame.name THEN 1 ELSE 0)
                    /\ \A key \in DispatchKeys :
                           keyCountOf(call_stats_', n, key)
                               = keyCountOf(call_stats_, n, key)
                                     + (IF n = frame.name /\ key = counted THEN 1 ELSE 0)
       ELSE call_stats_' = call_stats_]_vars

\* C14 witness: with profiling enabled, a call with key set {CPU, Autograd}
\* has returned: the nested call counted CPU, the top-level call Autograd.
C14_Witness ==
    /\ callOnAdd
    /\ status = "returned"
    /\ profiling_enabled_
    /\ topKeySet = {"CPU", "Autograd"}
    /\ callCountOf(call_stats_, "add") = 2
    /\ keyCountOf(call_stats_, "add", "Autograd") = 1
    /\ keyCountOf(call_stats_, "add", "CPU") = 1

\* the sum of call_stats_[name].key_counts over the keys
RECURSIVE sumKeyCounts(_, _, _)
sumKeyCounts(stats, name, keys) ==
    IF keys = <<>> THEN 0
    ELSE keyCountOf(stats, name, Head(keys)) + sumKeyCounts(stats, name, Tail(keys))

\* the keys of the kernels invoked by calls that have returned: the calls
\* still under way are the first Len(stack) invoked
completedKeys == SubSeq(invokedKeys, Len(stack) + 1, Len(invokedKeys))

\* C36: with profiling enabled, call_count of an operator is always the sum
\* of its per-key counters, and while a call on add runs and once it has
\* returned exactly the calls (top-level and redispatched) that have returned
\* are counted, each once under its key: the innermost first, none of the
\* calls still under way, and k + 1 in all once the top-level call has
\* returned through k redispatches.
C36_EveryReturnedCallCounted ==
    /\ \A n \in OperatorNames :
          callCountOf(call_stats_, n)
              = sumKeyCounts(call_stats_, n, keysInEnumOrder(DispatchKeys))
    /\ (profiling_enabled_ /\ callOnAdd /\ status \in {"running", "returned"}) =>
          /\ callCountOf(call_stats_, "add") = Len(completedKeys)
          /\ \A key \in DispatchKeys :
                keyCountOf(call_stats_, "add", key)
                    = Cardinality({i \in DOMAIN completedKeys : completedKeys[i] = key})

\* C36 witness: the redispatched call of a call with key set {CPU, Autograd}
\* has returned and is counted under CPU; the top-level call, in the
\* Autograd wrapper, is not counted yet.
C36_Witness ==
    /\ profiling_enabled_
    /\ callOnAdd
    /\ status = "running"
    /\ Len(stack) = 1
    /\ stack[1].phase = "resumed"
    /\ invokedKeys = <<"Autograd", "CPU">>
    /\ callCountOf(call_stats_, "add") = 1
    /\ keyCountOf(call_stats_, "add", "CPU") = 1
    /\ keyCountOf(call_stats_, "add", "Autograd") = 0

-----------------------------------------------------------------------------
(* Claims about failing calls, the client's kernel included (SpecClient)   *)

\* C15: a top-level call that fails leaves the registry (the operators, their
\* handles and kernel tables) and the statistics map as they were before the
\* call, when the map was empty.
C15_FailedCallLeavesStateUntouched ==
    [][/\ operators_' = operators_
       /\ heap' = heap
       /\ status' = "failed" => call_stats_' = EmptyMap]_vars

\* C16: an error raised at any depth (by lookup, by the backend kernel or by
\* a wrapper) reaches the caller of the top-level call in that very step:
\* every activation is left, the call has failed with that error, no wrapper
\* performs its trailing side effect, and nothing runs afterwards (no retry).
C16_ErrorsPropagateToCaller ==
    [][/\ (result'.kind = "error" /\ result.kind # "error")
              => /\ status' = "failed"
                 /\ stack' = <<>>
                 /\ trace' = trace
       /\ status' = "failed" => result'.kind = "error"
       /\ status # "failed"]_vars

\* C16 witness: the Tracing wrapper was invoked, its redispatch with the
\* empty key set found no kernel, and the top-level call has failed with
\* NoKernel without a trailing side effect.
C16_Witness ==
    /\ callOnAdd
    /\ status = "failed"
    /\ result.error = "NoKernel"
    /\ Len(trace) = 1
    /\ trace[1].key = "Tracing"

-----------------------------------------------------------------------------
(* Claims about the key a call is counted under (SpecSnapshot)             *)

\* C27: when a top-level Dispatcher::call(name, args) returns with profiling
\* enabled, the per-key counter it adds one to is that of the
\* highest-priority key of the key set the call selected its kernel with,
\* whatever the kernel did to the global flags meanwhile.
C27_CountedKeyFromSelectionSnapshot ==
    [][(callReturns /\ profiling_enabled_ /\ stack[Len(stack)].top)
          => LET frame == stack[Len(stack)]
                 counted == IF frame.ks = {} THEN "Undefined"
                            ELSE smallestPriorityKey(frame.ks)
             IN  keyCountOf(call_stats_', frame.name, counted)
                     = keyCountOf(call_stats_, frame.name, counted) + 1]_vars

-----------------------------------------------------------------------------
(* One OperatorHandle and its dispatch table (SpecTable)                   *)

\* the kernels registered in the table
TableKernels == {"add_cpu_kernel", "add_cuda_kernel"}

callVars == <<profiling_enabled_, call_stats_, globalState, args, stack, trace,
              status, result>>


\* handle.findKernel(ks), on the handle of operator add
FindKernel(ks) ==
    /\ lastOp = NoOp
    /\ lastOp' = [op |-> "findKernel", arg |-> ks, ret |-> findKernel(heap[1], ks),
                  found |-> TRUE]
    /\ UNCHANGED <<registryVars, callVars, threadVars>>

\* the dispatch tables setKernel and removeKernel can build
DispatchTables == UNION {[keys -> TableKernels] : keys \in SUBSET DispatchKeys}

\* operator add registered, its handle holding any dispatch table
InitTable ==
    /\ operators_ = ("add" :> 1)
    /\ heap \in {(1 :> table) : table \in DispatchTables}
    /\ nextHandle = 1
    /\ registration_callbacks_ = <<>>
    /\ cbLog = <<>>
    /\ profiling_enabled_ = FALSE
    /\ call_stats_ = EmptyMap
    /\ globalState = [autograd_enabled_ |-> FALSE, tracing_enabled_ |-> FALSE,
                      profiling_enabled_ |-> FALSE]
    /\ args = <<>>
    /\ stack = <<>>
    /\ trace = <<>>
    /\ status = "idle"
    /\ result = NoResult
    /\ lastOp = NoOp
    /\ lastReg = [n \in OperatorNames |-> IF n = "add" THEN "register" ELSE "none"]
    /\ pc = [t \in Threads |-> "idle"]
    /\ registry_mutex_ = NoThread
    /\ stats_mutex_ = NoThread
    /\ local = [t \in Threads |-> NoLocal]

NextTable == \E ks \in KeySets : FindKernel(ks)

SpecTable == InitTable /\ [][NextTable]_vars

\* C1: kernel lookup returns the kernel registered under the member of ks
\* with the smallest priority number among the members of ks that have a
\* kernel in the table; when no member of ks has a kernel it returns the
\* CatchAll kernel if one is registered, and none otherwise.
C1_LookupByPriority ==
    lastOp.op = "findKernel"
        => LET table == heap[1]
               ks == lastOp.arg
               candidates == ks \cap DOMAIN table
           IN  IF candidates # {}
               THEN \E key \in candidates :
                        /\ \A other \in candidates :
                               dispatchKeyPriority(key) <= dispatchKeyPriority(other)
                        /\ lastOp.ret = [key |-> key, fn |-> table[key]]
               ELSE IF "CatchAll" \in DOMAIN table
                    THEN lastOp.ret = [key |-> "CatchAll", fn |-> table["CatchAll"]]
                    ELSE lastOp.ret = nullptr

\* C1 witness: a lookup with {CPU, Tracing, CatchAll}, all three with a
\* kernel, returned the Tracing kernel, though CPU comes first in the enum.
C1_Witness ==
    /\ lastOp.op = "findKernel"
    /\ lastOp.arg = {"CPU", "Tracing", "CatchAll"}
    /\ lastOp.arg \subseteq DOMAIN heap[1]
    /\ lastOp.ret = [key |-> "Tracing", fn |-> heap[1]["Tracing"]]

\* C23: whatever table setKernel and removeKernel have built and whatever
\* the key set, the kernel a lookup returns is not the one registered under
\* the key Undefined.
C23_UndefinedNeverSelected ==
    lastOp.op = "findKernel" => lastOp.ret.key # "Undefined"

-----------------------------------------------------------------------------
(* The operator registry, driven by one caller (SpecRegistry)              *)

MaxHandles == 3

MaxCallbacks == 2

\* the mutant of isRegistered that never finds the name
neverRegistered(ops, name) == FALSE

\* operators_.find(name) != operators_.end()
isRegistered(ops, name) == name \in DOMAIN ops

\* operators_[name] = std::move(handle)
storeHandle(ops, name, handle) ==
    [n \in (DOMAIN ops) \cup {name} |-> IF n = name THEN handle ELSE ops[n]]

\* the mutant of eraseOperator that erases nothing
eraseNothing(ops, name) == ops

\* the mutant of eraseOperator that erases every operator
eraseEverything(ops, name) == EmptyMap

\* operators_.erase(it)
eraseOperator(ops, name) == [n \in (DOMAIN ops) \ {name} |-> ops[n]]

\* the mutant of ownedHandles in which an erased entry leaves its handle
\* alive
handlesKept(objects, ops) == objects

\* the handle objects alive: each is owned by the unique_ptr of one entry of
\* operators_ and dies with it
ownedHandles(objects, ops) ==
    [h \in {ops[n] : n \in DOMAIN ops} \cap DOMAIN objects |-> objects[h]]

\* a registration callback: the k-th one added has id k; its body returns
\* or throws
Callbacks == [id : 1..MaxCallbacks, throws : BOOLEAN]

\* callback(name, registered): how the body of the callback ends
invokeCallback(cb) == IF cb.throws THEN "exception" ELSE "returned"

\* the mutant of tryCallback that has no catch clause
tryCallbackUncaught(cb) ==
    IF invokeCallback(cb) = "exception" THEN "escaped" ELSE "returned"

\* try { callback(name, registered); } catch (...) { }
tryCallback(cb) ==
    IF invokeCallback(cb) = "exception" THEN "caught" ELSE "returned"

\* the number of turns the loop of notifyRegistrationCallbacks takes: it ends
\* with the list, or with the first exception that leaves the loop body
callbacksInvoked(callbacks) ==
    LET escaping == {i \in 1..Len(callbacks) : tryCallback(callbacks[i]) = "escaped"}
    IN  IF escaping = {} THEN Len(callbacks)
        ELSE CHOOSE i \in escaping : \A j \in escaping : i <= j

\* whether notifyRegistrationCallbacks returns to registerOperator or
\* deregisterOperator, or an exception leaves it
notifyReturns(callbacks) ==
    \A i \in 1..Len(callbacks) : tryCallback(callbacks[i]) # "escaped"

\* the mutant of notifyRegistrationCallbacks that walks the list backwards
notifyBackwards(callbacks, name, registered, ops) ==
    [i \in 1..Len(callbacks) |->
        [cb |-> callbacks[Len(callbacks) + 1 - i], name |-> name,
         registered |-> registered, present |-> name \in DOMAIN ops]]

\* the mutant of notifyRegistrationCallbacks that passes registered = true
\* whatever it was given
notifyAsRegistered(callbacks, name, registered, ops) ==
    [i \in 1..Len(callbacks) |->
        [cb |-> callbacks[i], name |-> name, registered |-> TRUE,
         present |-> name \in DOMAIN ops]]

\* notifyRegistrationCallbacks(name, registered) with the registry as ops:
\* the calls the callbacks receive, each with what hasOperator(name) would
\* have been at that moment
notifyRegistrationCallbacks(callbacks, name, registered, ops) ==
    [i \in 1..callbacksInvoked(callbacks) |->
        [cb |-> callbacks[i], name |-> name, registered |-> registered,
         present |-> name \in DOMAIN ops]]

\* what registerOperator and deregisterOperator hand back: the value they
\* return, or -1 for an exception that left notifyRegistrationCallbacks
returnedUnless(callbacks, value) == IF notifyReturns(callbacks) THEN value ELSE -1

callerVars == <<callVars, threadVars>>

\* Dispatcher::registerOperator(name)
RegisterOperator(name) ==
    /\ IF isRegistered(operators_, name)
       THEN /\ lastOp' = [op |-> "registerOperator", arg |-> name,
                          ret |-> operators_[name], found |-> TRUE]
            /\ cbLog' = <<>>
            /\ UNCHANGED <<operators_, heap, nextHandle>>
       ELSE /\ nextHandle < MaxHandles
            /\ LET handle == nextHandle + 1
                   stored == storeHandle(operators_, name, handle)
               IN  /\ nextHandle' = handle
                   /\ heap' = ownedHandles(heap @@ (handle :> EmptyMap), stored)
                   /\ operators_' = stored
                   /\ cbLog' = notifyRegistrationCallbacks(registration_callbacks_,
                                                           name, TRUE, stored)
                   /\ lastOp' = [op |-> "registerOperator", arg |-> name,
                                 ret |-> returnedUnless(registration_callbacks_, handle),
                                 found |-> FALSE]
    /\ lastReg' = [lastReg EXCEPT ![name] = "register"]
    /\ UNCHANGED <<registration_callbacks_, callerVars>>

\* Dispatcher::deregisterOperator(name)
DeregisterOperator(name) ==
    /\ IF isRegistered(operators_, name)
       THEN LET erased == eraseOperator(operators_, name)
            IN  /\ operators_' = erased
                /\ heap' = ownedHandles(heap, erased)
                /\ cbLog' = notifyRegistrationCallbacks(registration_callbacks_,
                                                        name, FALSE, erased)
                /\ lastOp' = [op |-> "deregisterOperator", arg |-> name,
                              ret |-> returnedUnless(registration_callbacks_, 0),
                              found |-> TRUE]
       ELSE /\ cbLog' = <<>>
            /\ lastOp' = [op |-> "deregisterOperator", arg |-> name, ret |-> 0,
                          found |-> FALSE]
            /\ UNCHANGED <<operators_, heap>>
    /\ lastReg' = [lastReg EXCEPT ![name] = "deregister"]
    /\ UNCHANGED <<nextHandle, registration_callbacks_, callerVars>>

\* Dispatcher::findOperator(name): the handle, or 0 for nullptr
FindOperator(name) ==
    /\ lastOp' = [op |-> "findOperator", arg |-> name,
                  ret |-> IF isRegistered(operators_, name) THEN operators_[name] ELSE 0,
                  found |-> isRegistered(operators_, name)]
    /\ cbLog' = <<>>
    /\ UNCHANGED <<operators_, heap, nextHandle, registration_callbacks_, lastReg,
                   callerVars>>

\* Dispatcher::hasOperator(name)
HasOperator(name) ==
    /\ lastOp' = [op |-> "hasOperator", arg |-> name,
                  ret |-> isRegistered(operators_, name),
                  found |-> isRegistered(operators_, name)]
    /\ cbLog' = <<>>
    /\ UNCHANGED <<operators_, heap, nextHandle, registration_callbacks_, lastReg,
                   callerVars>>

\* the orders in which an unordered_map can list the set names
Orderings(names) ==
    {seq \in [1..Cardinality(names) -> names] : \A n \in names : \E i \in DOMAIN seq : seq[i] = n}

\* Dispatcher::getAllOperatorNames(): the keys of operators_, in the order
\* the unordered_map iterates them
GetAllOperatorNames ==
    /\ \E names \in Orderings(DOMAIN operators_) :
           lastOp' = [op |-> "getAllOperatorNames", arg |-> "none", ret |-> names,
                      found |-> FALSE]
    /\ cbLog' = <<>>
    /\ UNCHANGED <<operators_, heap, nextHandle, registration_callbacks_, lastReg,
                   callerVars>>

\* Dispatcher::addRegistrationCallback(callback): the k-th callback added
\* has id k
AddRegistrationCallback ==
    /\ Len(registration_callbacks_) < MaxCallbacks
    /\ \E throws \in BOOLEAN :
           registration_callbacks_' =
               Append(registration_callbacks_,
                      [id |-> Len(registration_callbacks_) + 1, throws |-> throws])
    /\ lastOp' = [op |-> "addRegistrationCallback", arg |-> "none", ret |-> 0,
                  found |-> FALSE]
    /\ cbLog' = <<>>
    /\ UNCHANGED <<operators_, heap, nextHandle, lastReg, callerVars>>

\* REGISTER_KERNEL(handle, CPU, add_cpu_kernel) on a handle the caller got
\* from registerOperator or findOperator and that is still alive
SetKernel(handle) ==
    /\ handle \in DOMAIN heap
    /\ heap' = [heap EXCEPT ![handle] = setKernel(heap[handle], "CPU", "add_cpu_kernel")]
    /\ lastOp' = [op |-> "setKernel", arg |-> handle, ret |-> 0, found |-> FALSE]
    /\ cbLog' = <<>>
    /\ UNCHANGED <<operators_, nextHandle, registration_callbacks_, lastReg, callerVars>>

\* what Dispatcher::call(name, args) does when the selected kernel is a
\* backend kernel, which calls nothing: the outcome and the kernels run
callOutcome(name, a, g) ==
    LET sel == selectKernel(name, handleComputeDispatchKeySet(a, g))
    IN  IF sel.error # "none"
        THEN [outcome |-> Thrown(sel.error, <<name>>), ran |-> <<>>]
        ELSE IF backendAccepts(a)
             THEN [outcome |-> Returned(backendResult(sel.kernel.fn)),
                   ran |-> <<sel.kernel.fn>>]
             ELSE [outcome |-> Thrown("KernelError", <<sel.kernel.fn>>),
                   ran |-> <<sel.kernel.fn>>]

\* callOp(name, args), from the caller's thread, no kernel running
CallOperator(name) ==
    /\ lastOp' = [op |-> "call", arg |-> name, ret |-> callOutcome(name, args, globalState),
                  found |-> isRegistered(operators_, name)]
    /\ call_stats_' =
           IF profiling_enabled_ /\ callOutcome(name, args, globalState).outcome.kind = "value"
           THEN updateCallStats(call_stats_, name,
                                highestPriorityKey(handleComputeDispatchKeySet(args, globalState)))
           ELSE call_stats_
    /\ cbLog' = <<>>
    /\ UNCHANGED <<operators_, heap, nextHandle, registration_callbacks_, lastReg,
                   profiling_enabled_, globalState, args, stack, trace, status, result,
                   threadVars>>

\* a new Dispatcher: no operator, no callback; the caller holds two CPU tensors
InitRegistry ==
    /\ operators_ = EmptyMap
    /\ heap = EmptyMap
    /\ nextHandle = 0
    /\ registration_callbacks_ = <<>>
    /\ cbLog = <<>>
    /\ profiling_enabled_ = FALSE
    /\ call_stats_ = EmptyMap
    /\ globalState = [autograd_enabled_ |-> FALSE, tracing_enabled_ |-> FALSE,
                      profiling_enabled_ |-> FALSE]
    /\ args = <<IValueTensor(make_tensor_cpu), IValueTensor(make_tensor_cpu)>>
    /\ stack = <<>>
    /\ trace = <<>>
    /\ status = "idle"
    /\ result = NoResult
    /\ lastOp = NoOp
    /\ lastReg = [n \in OperatorNames |-> "none"]
    /\ pc = [t \in Threads |-> "idle"]
    /\ registry_mutex_ = NoThread
    /\ stats_mutex_ = NoThread
    /\ local = [t \in Threads |-> NoLocal]

NextRegistry ==
    \/ \E name \in OperatorNames : RegisterOperator(name)
    \/ \E name \in OperatorNames : DeregisterOperator(name)
    \/ \E name \in OperatorNames : FindOperator(name)
    \/ \E name \in OperatorNames : HasOperator(name)
    \/ GetAllOperatorNames
    \/ AddRegistrationCallback
    \/ \E handle \in 1..MaxHandles : SetKernel(handle)
    \/ \E name \in OperatorNames : CallOperator(name)

SpecRegistry == InitRegistry /\ [][NextRegistry]_vars

-----------------------------------------------------------------------------
(* Claims about the registry (SpecRegistry)                                *)

\* C6: hasOperator(n) returns true, findOperator(n) returns a handle and
\* getAllOperatorNames lists n exactly when the last of registerOperator and
\* deregisterOperator issued on n was registerOperator; a call on n issued
\* after deregisterOperator(n) throws UnknownOperator and runs no kernel.
C6_RegisteredIffLastWasRegister ==
    /\ lastOp.op = "hasOperator"
           => lastOp.ret = (lastReg[lastOp.arg] = "register")
    /\ lastOp.op = "findOperator"
           => (lastOp.ret # 0) = (lastReg[lastOp.arg] = "register")
    /\ lastOp.op = "getAllOperatorNames"
           => \A n \in OperatorNames :
                  (\E i \in DOMAIN lastOp.ret : lastOp.ret[i] = n) = (lastReg[n] = "register")
    /\ (lastOp.op = "call" /\ lastReg[lastOp.arg] = "deregister")
           => /\ lastOp.ret.outcome = Thrown("UnknownOperator", <<lastOp.arg>>)
              /\ lastOp.ret.ran = <<>>

\* C6 witness: a call on op_x, issued after a handle was created and with
\* deregisterOperator the last registry operation on op_x, has thrown
\* UnknownOperator.
C6_Witness ==
    /\ lastOp.op = "call"
    /\ lastOp.arg = "op_x"
    /\ lastReg["op_x"] = "deregister"
    /\ nextHandle >= 1
    /\ lastOp.ret.outcome.error = "UnknownOperator"

\* C7: registerOperator(n) on a name that is registered returns the handle
\* the registry already holds for n, leaves the registry, the handles and
\* their kernel tables as they were and calls no registration callback.
C7_ReRegistrationIdempotent ==
    [][(lastOp'.op = "registerOperator" /\ lastOp'.arg \in DOMAIN operators_)
           => /\ lastOp'.ret = operators_[lastOp'.arg]
              /\ operators_' = operators_
              /\ heap' = heap
              /\ nextHandle' = nextHandle
              /\ registration_callbacks_' = registration_callbacks_
              /\ cbLog' = <<>>]_vars

\* C7 witness: registerOperator has just returned the existing handle of a
\* name whose handle holds a kernel, with a callback registered.
C7_Witness ==
    /\ lastOp.op = "registerOperator"
    /\ lastOp.found
    /\ lastOp.ret = operators_[lastOp.arg]
    /\ heap[lastOp.ret] # EmptyMap
    /\ Len(registration_callbacks_) >= 1

\* C8: registerOperator(n) returns the handle the registry then holds for n,
\* findOperator(n) returns that same handle, and as long as
\* deregisterOperator(n) is not called the handle of n stays the same live
\* object, its kernel table changed by nothing but setKernel on it,
\* whatever is registered or deregistered under other names.
C8_HandleStableUntilDeregistered ==
    [][/\ \A n \in DOMAIN operators_ :
              ~(lastOp'.op = "deregisterOperator" /\ lastOp'.arg = n)
                  => /\ n \in DOMAIN operators_'
                     /\ operators_'[n] = operators_[n]
                     /\ operators_[n] \in DOMAIN heap'
                     /\ \/ heap'[operators_[n]] = heap[operators_[n]]
                        \/ lastOp'.op = "setKernel" /\ lastOp'.arg = operators_[n]
                     /\ (lastOp'.op \in {"findOperator", "registerOperator"}
                             /\ lastOp'.arg = n)
                            => lastOp'.ret = operators_[n]
       /\ lastOp'.op = "registerOperator"
              => /\ lastOp'.arg \in DOMAIN operators_'
                 /\ operators_'[lastOp'.arg] = lastOp'.ret
                 /\ lastOp'.ret \in DOMAIN heap']_vars

\* C8 witness: op_x has just been deregistered while add stays registered,
\* its handle alive and still holding the kernel it was given.
C8_Witness ==
    /\ lastOp.op = "deregisterOperator"
    /\ lastOp.arg = "op_x"
    /\ lastOp.found
    /\ "add" \in DOMAIN operators_
    /\ operators_["add"] \in DOMAIN heap
    /\ hasKernel(heap[operators_["add"]], "CPU")

\* C10: a registerOperator(n) that creates a handle calls every registered
\* callback exactly once with (n, true), in the order the callbacks were
\* added, each call made with n already in the registry.
C10_CallbacksOnCreation ==
    [][(lastOp'.op = "registerOperator" /\ lastOp'.arg \notin DOMAIN operators_)
           => cbLog' = [i \in 1..Len(registration_callbacks_) |->
                           [cb |-> registration_callbacks_[i], name |-> lastOp'.arg,
                            registered |-> TRUE, present |-> TRUE]]]_vars

\* C10 witness: a registration that created a handle has called the first
\* callback, then the second.
C10_Witness ==
    /\ lastOp.op = "registerOperator"
    /\ ~lastOp.found
    /\ Len(registration_callbacks_) >= 2
    /\ Len(cbLog) = Len(registration_callbacks_)
    /\ cbLog[1].cb.id = 1
    /\ cbLog[2].cb.id = 2

\* the calls the callbacks received during the last operation: which
\* callback, with which name and flag
callsReceived(log) ==
    [i \in 1..Len(log) |-> <<log[i].cb.id, log[i].name, log[i].registered>>]

\* one call with (name, registered) to each callback of the list, in order
oneCallEach(callbacks, name, registered) ==
    [i \in 1..Len(callbacks) |-> <<callbacks[i].id, name, registered>>]

\* C11 as stated: every deregisterOperator(n) calls each registered callback
\* exactly once with (n, false).
C11_DeregisterAlwaysNotifies ==
    [][lastOp'.op = "deregisterOperator"
           => callsReceived(cbLog')
                  = oneCallEach(registration_callbacks_, lastOp'.arg, FALSE)]_vars

\* C11 amended: deregisterOperator(n) on a name that is registered calls each
\* registered callback exactly once with (n, false); on a name that is not
\* registered it calls no callback.
C11_DeregisterNotifiesWhenRegistered ==
    [][lastOp'.op = "deregisterOperator"
           => callsReceived(cbLog')
                  = IF lastOp'.arg \in DOMAIN operators_
                    THEN oneCallEach(registration_callbacks_, lastOp'.arg, FALSE)
                    ELSE <<>>]_vars

\* C11 witness: deregisterOperator has just removed an operator and called
\* two callbacks with registered = false.
C11_Witness ==
    /\ lastOp.op = "deregisterOperator"
    /\ lastOp.found
    /\ Len(registration_callbacks_) = 2
    /\ callsReceived(cbLog) = <<<<1, lastOp.arg, FALSE>>, <<2, lastOp.arg, FALSE>>>>

\* C12: when callbacks throw during a registerOperator that creates a handle
\* or a deregisterOperator that removes one, every callback of the list is
\* still called, the operation returns normally (registerOperator with the
\* new handle), and the registry is what it would be had nothing been
\* thrown: the name added with a new empty handle, or the name removed, all
\* other entries and the callback list untouched.
C12_CallbackExceptionSwallowed ==
    [][(lastOp'.op \in {"registerOperator", "deregisterOperator"}
            /\ (lastOp'.op = "registerOperator") # (lastOp'.arg \in DOMAIN operators_)
            /\ \E i \in 1..Len(registration_callbacks_) : registration_callbacks_[i].throws)
           => /\ callsReceived(cbLog')
                     = oneCallEach(registration_callbacks_, lastOp'.arg,
                                   lastOp'.op = "registerOperator")
              /\ lastOp'.ret # -1
              /\ registration_callbacks_' = registration_callbacks_
              /\ \A n \in OperatorNames \ {lastOp'.arg} :
                     /\ (n \in DOMAIN operators_') = (n \in DOMAIN operators_)
                     /\ n \in DOMAIN operators_ => operators_'[n] = operators_[n]
              /\ IF lastOp'.op = "registerOperator"
                 THEN /\ lastOp'.arg \in DOMAIN operators_'
                      /\ operators_'[lastOp'.arg] = lastOp'.ret
                      /\ lastOp'.ret \notin DOMAIN heap
                      /\ lastOp'.ret \in DOMAIN heap'
                      /\ heap'[lastOp'.ret] = EmptyMap
                 ELSE lastOp'.arg \notin DOMAIN operators_']_vars

\* C12 witness: registerOperator has created a handle and returned it, the
\* first of two callbacks having thrown and the second having been called.
C12_Witness ==
    /\ lastOp.op = "registerOperator"
    /\ ~lastOp.found
    /\ lastOp.ret = operators_[lastOp.arg]
    /\ Len(registration_callbacks_) = 2
    /\ registration_callbacks_[1].throws
    /\ Len(cbLog) = 2
    /\ cbLog[2].cb.id = 2

\* C38: a deregisterOperator(n) that removes n destroys its handle, with
\* the kernels set on it, and calls every callback with (n, false); a
\* registerOperator(n) issued after it creates a handle that is none of the
\* handles alive, has an empty dispatch table, and calls every callback with
\* (n, true), so that the callbacks see (n, true), (n, false), (n, true) in
\* the order of the three operations; a call on n made while the table of
\* its handle is empty fails with NoKernel and runs nothing, and one made
\* after setKernel on the new handle returns.
C38_ReregistrationStartsEmpty ==
    [][\A n \in OperatorNames :
           /\ (lastOp'.op = "deregisterOperator" /\ lastOp'.arg = n
                   /\ isRegistered(operators_, n))
                  => /\ operators_[n] \notin DOMAIN heap'
                     /\ ~isRegistered(operators_', n)
                     /\ callsReceived(cbLog') = oneCallEach(registration_callbacks_, n, FALSE)
           /\ (lastOp'.op = "registerOperator" /\ lastOp'.arg = n
                   /\ lastReg[n] = "deregister")
                  => /\ isRegistered(operators_', n)
                     /\ operators_'[n] \notin DOMAIN heap
                     /\ heap'[operators_'[n]] = EmptyMap
                     /\ lastOp'.ret = operators_'[n]
                     /\ callsReceived(cbLog') = oneCallEach(registration_callbacks_, n, TRUE)
           /\ (lastOp'.op = "call" /\ lastOp'.arg = n /\ isRegistered(operators_, n))
                  => IF heap[operators_[n]] = EmptyMap
                     THEN /\ lastOp'.ret.outcome = Thrown("NoKernel", <<n>>)
                          /\ lastOp'.ret.ran = <<>>
                     ELSE lastOp'.ret.outcome.kind = "value"]_vars

\* C38 witness: add was registered, deregistered and registered again (its
\* handle is the second one created and op_x was never registered), and a
\* call on add has failed with NoKernel.
C38_Witness ==
    /\ lastOp.op = "call"
    /\ lastOp.arg = "add"
    /\ lastReg["op_x"] = "none"
    /\ isRegistered(operators_, "add")
    /\ operators_["add"] = 2
    /\ heap[2] = EmptyMap
    /\ lastOp.ret.outcome = Thrown("NoKernel", <<"add">>)

-----------------------------------------------------------------------------
(* Threads racing through Dispatcher::registerOperator (SpecConc)          *)

dispatcherVars == <<profiling_enabled_, call_stats_, globalState, args, stack, trace,
                    status, result, lastOp, lastReg, registration_callbacks_, stats_mutex_>>

\* the mutant of canLock: a lock that never excludes anybody
lockAlwaysFree(mutex) == TRUE

\* the mutant of canLock: a lock that nobody ever gets
lockNeverFree(mutex) == FALSE

\* std::mutex: lock() goes through when no thread holds the mutex
canLock(mutex) == mutex = NoThread

\* the handle objects alive while threads are inside registerOperator: those
\* operators_ owns and those still owned by the local unique_ptr of a thread
\* between make_unique and the insertion
aliveHandles(objects, ops, locals, pcs) ==
    [h \in ({ops[n] : n \in DOMAIN ops}
               \cup {locals[t].handle : t \in {u \in Threads : pcs[u] = "insert"}})
              \cap DOMAIN objects |-> objects[h]]

\* thread t calls registerOperator(name)
BeginRegister(t, name) ==
    /\ pc[t] = "idle"
    /\ pc' = [pc EXCEPT ![t] = "lock"]
    /\ local' = [local EXCEPT ![t] = [NoLocal EXCEPT !.op = "registerOperator",
                                                     !.name = name]]
    /\ UNCHANGED <<operators_, heap, nextHandle, cbLog, registry_mutex_, dispatcherVars>>

\* std::lock_guard<std::mutex> lock(registry_mutex_)
Lock(t) ==
    /\ pc[t] = "lock"
    /\ canLock(registry_mutex_)
    /\ registry_mutex_' = t
    /\ pc' = [pc EXCEPT ![t] = "find"]
    /\ UNCHANGED <<operators_, heap, nextHandle, cbLog, local, dispatcherVars>>

\* operators_.find(name): on a hit the handle found is what the call returns
Find(t) ==
    /\ pc[t] = "find"
    /\ local[t].op = "registerOperator"
    /\ IF isRegistered(operators_, local[t].name)
       THEN /\ local' = [local EXCEPT ![t].handle = operators_[local[t].name]]
            /\ pc' = [pc EXCEPT ![t] = "unlock"]
       ELSE /\ pc' = [pc EXCEPT ![t] = "create"]
            /\ local' = local
    /\ UNCHANGED <<operators_, heap, nextHandle, cbLog, registry_mutex_, dispatcherVars>>

\* std::make_unique<OperatorHandle>(name.fullName())
Create(t) ==
    /\ pc[t] = "create"
    /\ nextHandle' = nextHandle + 1
    /\ heap' = heap @@ ((nextHandle + 1) :> EmptyMap)
    /\ local' = [local EXCEPT ![t].handle = nextHandle + 1]
    /\ pc' = [pc EXCEPT ![t] = "insert"]
    /\ UNCHANGED <<operators_, cbLog, registry_mutex_, dispatcherVars>>

\* operators_[name] = std::move(handle): a handle the entry held is destroyed
Insert(t) ==
    /\ pc[t] = "insert"
    /\ operators_' = storeHandle(operators_, local[t].name, local[t].handle)
    /\ pc' = [pc EXCEPT ![t] = "notify"]
    /\ local' = [local EXCEPT ![t].next = 1]
    /\ heap' = aliveHandles(heap, operators_', local', pc')
    /\ UNCHANGED <<nextHandle, cbLog, registry_mutex_, dispatcherVars>>

\* the Dispatcher methods that begin with std::lock_guard on registry_mutex_
\* (call does through findOperator, printDebugInfo through debugString)
takesRegistryLock(method) ==
    method \in {"registerOperator", "findOperator", "hasOperator", "deregisterOperator",
                "getAllOperatorNames", "call", "addRegistrationCallback", "debugString",
                "printDebugInfo"}

\* the Dispatcher method the body of a callback calls, "none" when it calls none
calledBy(cb) == IF "calls" \in DOMAIN cb THEN cb.calls ELSE "none"

\* one turn of the loop of notifyRegistrationCallbacks(name, registered):
\* the callback runs on the notifying thread; when its body calls a method
\* that takes registry_mutex_, the thread arrives at that method's lock_guard
Notify(t) ==
    /\ pc[t] = "notify"
    /\ IF local[t].next <= Len(registration_callbacks_)
       THEN LET cb == registration_callbacks_[local[t].next]
            IN  /\ cbLog' = Append(cbLog, [cb |-> cb, name |-> local[t].name,
                                           registered |-> local[t].op = "registerOperator",
                                           present |-> local[t].name \in DOMAIN operators_])
                /\ IF takesRegistryLock(calledBy(cb))
                   THEN /\ local' = [local EXCEPT ![t].inside = calledBy(cb)]
                        /\ pc' = [pc EXCEPT ![t] = "lock"]
                   ELSE /\ local' = [local EXCEPT ![t].next = local[t].next + 1]
                        /\ pc' = pc
       ELSE /\ pc' = [pc EXCEPT ![t] = "unlock"]
            /\ UNCHANGED <<cbLog, local>>
    /\ UNCHANGED <<operators_, heap, nextHandle, registry_mutex_, dispatcherVars>>

\* the return: the lock_guard releases the mutex, the caller gets local[t].handle
Unlock(t) ==
    /\ pc[t] = "unlock"
    /\ registry_mutex_' = NoThread
    /\ pc' = [pc EXCEPT ![t] = "done"]
    /\ UNCHANGED <<operators_, heap, nextHandle, cbLog, local, dispatcherVars>>

\* a Dispatcher with no operator yet and up to MaxCallbacks callbacks
InitConc ==
    /\ operators_ = EmptyMap
    /\ heap = EmptyMap
    /\ nextHandle = 0
    /\ registration_callbacks_ \in {[i \in 1..k |-> [id |-> i, throws |-> FALSE]] :
                                        k \in 0..MaxCallbacks}
    /\ cbLog = <<>>
    /\ profiling_enabled_ = FALSE
    /\ call_stats_ = EmptyMap
    /\ globalState = [autograd_enabled_ |-> FALSE, tracing_enabled_ |-> FALSE,
                      profiling_enabled_ |-> FALSE]
    /\ args = <<>>
    /\ stack = <<>>
    /\ trace = <<>>
    /\ status = "idle"
    /\ result = NoResult
    /\ lastOp = NoOp
    /\ lastReg = [n \in OperatorNames |-> "none"]
    /\ pc = [t \in Threads |-> "idle"]
    /\ registry_mutex_ = NoThread
    /\ stats_mutex_ = NoThread
    /\ local = [t \in Threads |-> NoLocal]

NextConc ==
    \E t \in Threads :
        \/ \E name \in OperatorNames : BeginRegister(t, name)
        \/ Lock(t)
        \/ Find(t)
        \/ Create(t)
        \/ Insert(t)
        \/ Notify(t)
        \/ Unlock(t)

SpecConc == InitConc /\ [][NextConc]_vars

\* the calls the callbacks received for name n
callsFor(n) == SelectSeq(cbLog, LAMBDA e : e.name = n)

\* C9: however the threads calling registerOperator interleave, the handles
\* created are one per name registered, every call on a name returns the
\* handle of that name, and once a call on a name has returned each callback
\* has been called exactly once with (name, true).
C9_ConcurrentRegistrationCreatesOne ==
    /\ nextHandle = Cardinality((DOMAIN operators_)
                                    \cup {local[t].name : t \in {u \in Threads : pc[u] = "insert"}})
    /\ \A n \in OperatorNames :
        LET inside == {t \in Threads : local[t].name = n /\ pc[t] \in {"insert", "notify", "unlock", "done"}}
            returned == {t \in Threads : local[t].name = n /\ pc[t] = "done"}
            expected == [i \in 1..Len(registration_callbacks_) |->
                            [cb |-> registration_callbacks_[i], name |-> n,
                             registered |-> TRUE, present |-> TRUE]]
        IN  /\ Cardinality({local[t].handle : t \in inside}) <= 1
            /\ isPrefix(callsFor(n), expected)
            /\ returned # {}
                   => /\ n \in DOMAIN operators_
                      /\ \A t \in returned : local[t].handle = operators_[n]
                      /\ operators_[n] \in DOMAIN heap
                      /\ callsFor(n) = expected

\* C9 witness: three threads have returned from registerOperator("add"),
\* with two callbacks registered, and one handle was created.
C9_Witness ==
    /\ \A t \in Threads : pc[t] = "done" /\ local[t].name = "add"
    /\ Len(registration_callbacks_) = 2
    /\ nextHandle = 1

-----------------------------------------------------------------------------
(* Callbacks that call back into the Dispatcher (SpecReentry)              *)

\* the methods the callbacks of this specification call: those that take
\* registry_mutex_, one that takes stats_mutex_ only, or none
CallbackCalls ==
    {"registerOperator", "findOperator", "hasOperator", "deregisterOperator",
     "getAllOperatorNames", "call", "addRegistrationCallback", "debugString",
     "printDebugInfo", "resetCallStats", "none"}

ReentryThreads == {"t1", "t2"}

\* thread t calls deregisterOperator(name)
BeginDeregister(t, name) ==
    /\ pc[t] = "idle"
    /\ pc' = [pc EXCEPT ![t] = "lock"]
    /\ local' = [local EXCEPT ![t] = [NoLocal EXCEPT !.op = "deregisterOperator",
                                                     !.name = name]]
    /\ UNCHANGED <<operators_, heap, nextHandle, cbLog, registry_mutex_, dispatcherVars>>

\* deregisterOperator after the lock: operators_.find(name), and on a hit
\* operators_.erase(it), which destroys the handle
Erase(t) ==
    /\ pc[t] = "find"
    /\ local[t].op = "deregisterOperator"
    /\ IF isRegistered(operators_, local[t].name)
       THEN /\ operators_' = eraseOperator(operators_, local[t].name)
            /\ heap' = aliveHandles(heap, operators_', local, pc)
            /\ local' = [local EXCEPT ![t].next = 1]
            /\ pc' = [pc EXCEPT ![t] = "notify"]
       ELSE /\ pc' = [pc EXCEPT ![t] = "unlock"]
            /\ UNCHANGED <<operators_, heap, local>>
    /\ UNCHANGED <<nextHandle, cbLog, registry_mutex_, dispatcherVars>>

\* a Dispatcher with add registered or not, and one to MaxCallbacks callbacks
InitReentry ==
    /\ \E registered \in BOOLEAN :
           /\ operators_ = IF registered THEN ("add" :> 1) ELSE EmptyMap
           /\ heap = IF registered THEN (1 :> EmptyMap) ELSE EmptyMap
           /\ nextHandle = IF registered THEN 1 ELSE 0
    /\ registration_callbacks_ \in
           UNION {{[i \in 1..k |-> [id |-> i, throws |-> FALSE, calls |-> c[i]]] :
                       c \in [1..k -> CallbackCalls]} : k \in 1..MaxCallbacks}
    /\ cbLog = <<>>
    /\ profiling_enabled_ = FALSE
    /\ call_stats_ = EmptyMap
    /\ globalState = [autograd_enabled_ |-> FALSE, tracing_enabled_ |-> FALSE,
                      profiling_enabled_ |-> FALSE]
    /\ args = <<>>
    /\ stack = <<>>
    /\ trace = <<>>
    /\ status = "idle"
    /\ result = NoResult
    /\ lastOp = NoOp
    /\ lastReg = [n \in OperatorNames |-> "none"]
    /\ pc = [t \in Threads |-> "idle"]
    /\ registry_mutex_ = NoThread
    /\ stats_mutex_ = NoThread
    /\ local = [t \in Threads |-> NoLocal]

NextReentry ==
    \E t \in ReentryThreads :
        \/ BeginRegister(t, "add")
        \/ BeginDeregister(t, "add")
        \/ Lock(t)
        \/ Find(t)
        \/ Create(t)
        \/ Insert(t)
        \/ Erase(t)
        \/ Notify(t)
        \/ Unlock(t)

SpecReentry == InitReentry /\ [][NextReentry]_vars

\* thread t is inside a callback that has called a Dispatcher method
reentered(t) == local[t].inside # "none"

\* C13: the callbacks run with registry_mutex_ held by the thread that
\* notifies, and a callback that calls a Dispatcher method taking that mutex
\* stays at the method's lock for ever: the thread makes no further step, the
\* mutex is never released and the registerOperator or deregisterOperator
\* around the callback never returns.
C13_ReentrantCallbackDeadlocks ==
    [][\A t \in ReentryThreads :
           /\ pc[t] = "notify" => registry_mutex_ = t
           /\ (pc[t] = "notify" /\ local[t].next <= Len(registration_callbacks_)
                   /\ takesRegistryLock(registration_callbacks_[local[t].next].calls)
                   /\ pc'[t] # "notify")
                  => reentered(t)'
           /\ reentered(t)
                  => /\ pc[t] = "lock" /\ pc'[t] = "lock"
                     /\ registry_mutex_ = t /\ registry_mutex_' = t
                     /\ local'[t] = local[t]]_vars

\* C13 witness: a callback called by deregisterOperator has called
\* hasOperator and waits for the mutex its own thread holds, while the other
\* thread waits for it in registerOperator.
C13_Witness ==
    /\ reentered("t1")
    /\ local["t1"].op = "deregisterOperator"
    /\ local["t1"].inside = "hasOperator"
    /\ registry_mutex_ = "t1"
    /\ pc["t2"] = "lock"
    /\ local["t2"].op = "registerOperator"

-----------------------------------------------------------------------------
(* OperatorHandle::call and KernelFunction::callBoxed (SpecHandle)         *)

\* DispatchKeySet::toString: "{}", or the names of the keys in toVector
\* order, separated by ", ", between braces; the pieces of the string
RECURSIVE joinKeys(_)
joinKeys(keys) ==
    IF keys = <<>> THEN <<>>
    ELSE IF Len(keys) = 1 THEN <<keys[1]>>
    ELSE <<keys[1], ", ">> \o joinKeys(Tail(keys))

toString(ks) ==
    IF ks = {} THEN <<"{}">> ELSE <<"{">> \o joinKeys(toVector(ks)) \o <<"}">>

\* the mutant of isValid that takes every kernel for valid
alwaysValid(fn) == TRUE

\* KernelFunction::isValid: boxed_fn_ holds a function; the kernel named
\* "invalid" is the default-constructed one
isValid(fn) == fn # "invalid"

\* boxed_fn_(args): what the function does and which function ran; calling
\* the empty std::function of a default-constructed kernel throws
\* std::bad_function_call
boxedFn(fn, a) ==
    IF isBackendKernel(fn)
    THEN [outcome |-> IF backendAccepts(a) THEN Returned(backendResult(fn))
                      ELSE Thrown("KernelError", <<fn>>),
          ran |-> <<[fn |-> fn, args |-> a]>>]
    ELSE [outcome |-> Thrown("bad_function_call", <<>>), ran |-> <<>>]

\* KernelFunction::callBoxed(args)
callBoxed(fn, a) ==
    IF ~isValid(fn)
    THEN [outcome |-> Thrown("InvalidKernel", <<>>), ran |-> <<>>]
    ELSE boxedFn(fn, a)

\* OperatorHandle::call(ks, args) on the handle called name with dispatch
\* table table: the outcome, the kernels callBoxed was called on and the
\* functions that ran
handleCall(table, name, ks, a) ==
    LET kernel == findKernel(table, ks)
    IN  IF kernel = nullptr
        THEN [outcome |-> Thrown("NoKernel", <<name, toString(ks)>>),
              invoked |-> <<>>, ran |-> <<>>]
        ELSE [outcome |-> callBoxed(kernel.fn, a).outcome,
              invoked |-> <<[key |-> kernel.key, args |-> a]>>,
              ran |-> callBoxed(kernel.fn, a).ran]

\* handle.call(ks, args), on the handle of operator add
HandleCall(ks) ==
    /\ lastOp = NoOp
    /\ lastOp' = [op |-> "handleCall", arg |-> ks,
                  ret |-> handleCall(heap[1], "add", ks, args), found |-> TRUE]
    /\ UNCHANGED <<registryVars, callVars, threadVars>>

\* kernel.callBoxed(args) on a kernel the caller holds
CallBoxed(fn) ==
    /\ lastOp = NoOp
    /\ lastOp' = [op |-> "callBoxed", arg |-> fn, ret |-> callBoxed(fn, args),
                  found |-> TRUE]
    /\ UNCHANGED <<registryVars, callVars, threadVars>>

\* the kernels of the tables of this specification: a backend kernel and the
\* default-constructed kernel
HandleKernels == {"add_cpu_kernel", "invalid"}

\* the dispatch tables setKernel can build from them
HandleTables == UNION {[keys -> HandleKernels] : keys \in SUBSET DispatchKeys}

\* operator add with any such table; the caller holds two tensors, or one
InitHandle ==
    /\ operators_ = ("add" :> 1)
    /\ heap \in {(1 :> table) : table \in HandleTables}
    /\ nextHandle = 1
    /\ registration_callbacks_ = <<>>
    /\ cbLog = <<>>
    /\ profiling_enabled_ = FALSE
    /\ call_stats_ = EmptyMap
    /\ globalState = [autograd_enabled_ |-> FALSE, tracing_enabled_ |-> FALSE,
                      profiling_enabled_ |-> FALSE]
    /\ args \in {<<IValueTensor(make_tensor_cpu), IValueTensor(make_tensor_cuda)>>,
                  <<IValueTensor(make_tensor_cpu)>>}
    /\ stack = <<>>
    /\ trace = <<>>
    /\ status = "idle"
    /\ result = NoResult
    /\ lastOp = NoOp
    /\ lastReg = [n \in OperatorNames |-> IF n = "add" THEN "register" ELSE "none"]
    /\ pc = [t \in Threads |-> "idle"]
    /\ registry_mutex_ = NoThread
    /\ stats_mutex_ = NoThread
    /\ local = [t \in Threads |-> NoLocal]

NextHandle ==
    \/ \E ks \in KeySets : HandleCall(ks)
    \/ \E fn \in HandleKernels : CallBoxed(fn)

SpecHandle == InitHandle /\ [][NextHandle]_vars

\* the key whose kernel a lookup with ks selects in table: the member of ks
\* with a kernel and the smallest priority number, else CatchAll if it has a
\* kernel, else "none"
selectedKey(table, ks) ==
    IF ks \cap DOMAIN table # {} THEN smallestPriorityKey(ks \cap DOMAIN table)
    ELSE IF "CatchAll" \in DOMAIN table THEN "CatchAll"
    ELSE "none"

\* C17: handle.call(ks, args) fails with NoKernel, carrying the operator
\* name and ks as toString prints it and invoking no kernel, exactly when no
\* member of ks has a kernel and CatchAll has none; otherwise it calls
\* callBoxed(args) on exactly one kernel, the selected one, and what that
\* kernel returns or throws is what the call returns or throws.
C17_NoKernelExactlyOnMiss ==
    lastOp.op = "handleCall"
        => LET table == heap[1]
               ks == lastOp.arg
               key == selectedKey(table, ks)
               ret == lastOp.ret
           IN  /\ (ret.outcome.error = "NoKernel") = (key = "none")
               /\ key = "none"
                      => /\ ret.outcome.kind = "error"
                         /\ ret.outcome.value[1] = "add"
                         /\ ret.outcome.value[2] = toString(ks)
                         /\ ret.invoked = <<>>
                         /\ ret.ran = <<>>
               /\ key # "none"
                      => /\ ret.invoked = <<[key |-> key, args |-> args]>>
                         /\ Len(ret.ran) <= 1
                         /\ table[key] = "add_cpu_kernel"
                                => /\ ret.ran = <<[fn |-> "add_cpu_kernel", args |-> args]>>
                                   /\ ret.outcome
                                          = IF Len(args) = 2
                                            THEN Returned(<<IValueTensor(make_tensor_cpu)>>)
                                            ELSE Thrown("KernelError", <<"add_cpu_kernel">>)

\* C17 witness: a call with {CUDA, Autograd} on a table holding a kernel for
\* CPU only has failed with NoKernel, naming add and "{Autograd, CUDA}".
C17_Witness ==
    /\ lastOp.op = "handleCall"
    /\ lastOp.arg = {"CUDA", "Autograd"}
    /\ DOMAIN heap[1] = {"CPU"}
    /\ lastOp.ret.outcome
           = Thrown("NoKernel", <<"add", <<"{", "Autograd", ", ", "CUDA", "}">>>>)

\* C18: callBoxed on a default-constructed kernel fails with InvalidKernel
\* and runs no function, whether the caller holds the kernel or the kernel
\* was stored in a dispatch table and selected by the lookup of call.
C18_InvalidKernelFails ==
    /\ (lastOp.op = "callBoxed" /\ lastOp.arg = "invalid")
           => lastOp.ret = [outcome |-> Thrown("InvalidKernel", <<>>), ran |-> <<>>]
    /\ (lastOp.op = "handleCall" /\ selectedKey(heap[1], lastOp.arg) # "none"
            /\ heap[1][selectedKey(heap[1], lastOp.arg)] = "invalid")
           => /\ lastOp.ret.outcome = Thrown("InvalidKernel", <<>>)
              /\ lastOp.ret.ran = <<>>

\* C18 witness: a call with {CPU, Autograd} selected the default-constructed
\* kernel stored under Autograd, ahead of the valid CPU kernel, and failed
\* with InvalidKernel.
C18_Witness ==
    /\ lastOp.op = "handleCall"
    /\ lastOp.arg = {"CPU", "Autograd"}
    /\ hasKernel(heap[1], "CPU") /\ heap[1]["CPU"] = "add_cpu_kernel"
    /\ hasKernel(heap[1], "Autograd") /\ heap[1]["Autograd"] = "invalid"
    /\ lastOp.ret.outcome.error = "InvalidKernel"

\* C37: the lookup of handle.call(ks, args) goes by the presence of a key
\* in the table and not by the validity of the kernel stored under it: when
\* a member of ks has an entry, callBoxed is called on the entry of the
\* member with the smallest priority number, and when that kernel is the
\* default-constructed one the call fails with InvalidKernel and runs no
\* function, also when another member of ks or CatchAll holds a valid kernel.
C37_InvalidKernelNotSkipped ==
    lastOp.op = "handleCall"
        => LET table == heap[1]
               present == lastOp.arg \cap DOMAIN table
               first == smallestPriorityKey(present)
               ret == lastOp.ret
           IN  present # {}
                   => /\ ret.invoked = <<[key |-> first, args |-> args]>>
                      /\ table[first] = "invalid"
                             => /\ ret.outcome = Thrown("InvalidKernel", <<>>)
                                /\ ret.ran = <<>>

\* C37 witness: a call with {CPU, CUDA} on a table with the
\* default-constructed kernel under CPU and valid kernels under CUDA and
\* CatchAll has failed with InvalidKernel and run nothing.
C37_Witness ==
    /\ lastOp.op = "handleCall"
    /\ lastOp.arg = {"CPU", "CUDA"}
    /\ DOMAIN heap[1] = {"CPU", "CUDA", "CatchAll"}
    /\ heap[1]["CPU"] = "invalid"
    /\ heap[1]["CUDA"] = "add_cpu_kernel"
    /\ heap[1]["CatchAll"] = "add_cpu_kernel"
    /\ lastOp.ret.outcome = Thrown("InvalidKernel", <<>>)
    /\ lastOp.ret.ran = <<>>

-----------------------------------------------------------------------------
(* Kernels boxed from native functions (SpecBoxing)                        *)

MaxArgs == 3

IValueInt(value) == [tag |-> "Int", payload |-> value]

\* the native functions of main.cpp: the parameter types and the return type
NativeFunctions ==
    {[name |-> "add_cpu_unboxed", params |-> <<"const Tensor&", "const Tensor&">>,
      returns |-> "Tensor"],
     [name |-> "add_cuda_unboxed", params |-> <<"const Tensor&", "const Tensor&">>,
      returns |-> "Tensor"],
     [name |-> "add_scalar_unboxed", params |-> <<"double", "double">>,
      returns |-> "double"],
     [name |-> "add_tensor_scalar_unboxed", params |-> <<"const Tensor&", "double">>,
      returns |-> "Tensor"],
     [name |-> "print_tensor_info_unboxed", params |-> <<"const Tensor&">>,
      returns |-> "void"]}

nativeFunction(name) == CHOOSE f \in NativeFunctions : f.name = name

\* the mutant of arity that takes every function for binary
arityOfTwo(f) == 2

\* function_traits<Func>::arity
arity(f) == Len(f.params)

\* the variant ivalue_to_arg<T>::convert asks for
expectedTag(type) ==
    CASE type \in {"Tensor", "const Tensor&", "Tensor&"} -> "Tensor"
      [] type \in {"double", "const double&"} -> "Double"
      [] type \in {"int64_t", "const int64_t&"} -> "Int"
      [] type \in {"bool", "const bool&"} -> "Bool"

\* the mutant of accepts that lets a Double pass for a Tensor
acceptsDoubleAsTensor(type, v) ==
    v.tag = expectedTag(type) \/ (expectedTag(type) = "Tensor" /\ v.tag = "Double")

\* the check at the head of ivalue_to_arg<T>::convert
accepts(type, v) == v.tag = expectedTag(type)

\* the by-reference specializations of ivalue_to_arg return a reference to
\* one thread_local temporary per parameter type
isReferenceType(type) ==
    type \in {"const Tensor&", "Tensor&", "const double&", "const int64_t&", "const bool&"}

\* the orders in which the conversions of the n arguments of the native call
\* can be evaluated: the language leaves the order to the compiler
EvaluationOrders(n) ==
    {order \in [1..n -> 1..n] : \A i \in 1..n : \E j \in 1..n : order[j] = i}

\* the conversions completed, in evaluation order, before the first one that
\* throws (all of them when none throws)
RECURSIVE converted(_, _, _)
converted(f, a, order) ==
    IF order = <<>> THEN <<>>
    ELSE IF accepts(f.params[Head(order)], a[Head(order)])
         THEN <<Head(order)>> \o converted(f, a, Tail(order))
         ELSE <<>>

\* what parameter i of the native function reads: the payload of args[i]
\* when passed by value; when passed by reference, what the temporary of its
\* type holds once every conversion is done, the payload converted last
observedParameter(f, a, order, i) ==
    IF isReferenceType(f.params[i])
    THEN LET sharing == {k \in 1..Len(order) : f.params[order[k]] = f.params[i]}
             last == CHOOSE k \in sharing : \A other \in sharing : other <= k
         IN  a[order[last]].payload
    ELSE a[i].payload

\* what the body of the native function returns on the parameters it reads
\* (nothing when its return type is void)
nativeResult(f, observed) ==
    CASE f.name \in {"add_cpu_unboxed", "add_tensor_scalar_unboxed"} -> make_tensor_cpu
      [] f.name = "add_cuda_unboxed" -> make_tensor_cuda
      [] f.name = "add_scalar_unboxed" -> observed[1] + observed[2]
      [] f.name = "print_tensor_info_unboxed" -> "void"

\* arg_to_ivalue<T>::convert: the IValue constructor of the C++ type
arg_to_ivalue(type, value) ==
    CASE type = "Tensor" -> IValueTensor(value)
      [] type = "double" -> IValueDouble(value)
      [] type = "int64_t" -> IValueInt(value)

\* the mutant of wrapReturn that wraps the return of a void function too
wrapReturnOfVoid(type, value) == <<[tag |-> "None", payload |-> value]>>

\* wrapReturn and the two branches of callUnboxedImpl: no value for void,
\* else the list of the one converted return value
wrapReturn(type, value) ==
    IF type = "void" THEN <<>> ELSE <<arg_to_ivalue(type, value)>>

\* the boxed function makeBoxedFromUnboxed builds for f, called with a, the
\* conversions evaluated in the given order: the outcome, the arguments
\* extracted and the native calls made, each with the parameters it read
boxedFromUnboxed(f, a, order) ==
    IF Len(a) # arity(f)
    THEN [outcome |-> Thrown("ArityMismatch", <<arity(f), Len(a)>>),
          extracted |-> <<>>, ran |-> <<>>]
    ELSE LET done == converted(f, a, order)
         IN  IF Len(done) < Len(order)
             THEN [outcome |-> Thrown("TypeMismatch",
                                      <<expectedTag(f.params[order[Len(done) + 1]]),
                                        order[Len(done) + 1]>>),
                   extracted |-> done, ran |-> <<>>]
             ELSE LET observed == [i \in 1..Len(a) |-> observedParameter(f, a, order, i)]
                      returned == nativeResult(f, observed)
                  IN  [outcome |-> Returned(wrapReturn(f.returns, returned)),
                       extracted |-> done,
                       ran |-> <<[fn |-> f.name, observed |-> observed,
                                  returned |-> returned]>>]

\* KernelFunction(f).callBoxed(args) for a native function f of main.cpp
CallUnboxedKernel(f) ==
    /\ lastOp = NoOp
    /\ \E order \in EvaluationOrders(arity(f)) :
           lastOp' = [op |-> "callUnboxed", arg |-> f.name,
                      ret |-> boxedFromUnboxed(f, args, IF Len(args) = arity(f)
                                                       THEN order ELSE <<>>),
                      found |-> TRUE]
    /\ UNCHANGED <<registryVars, callVars, threadVars>>

\* the values of the argument lists: tensors, doubles and an int
BoxingValues ==
    {IValueTensor(make_tensor_cpu), IValueTensor(make_tensor_cuda),
     IValueDouble(1), IValueDouble(2), IValueInt(3)}

BoxingArgLists == UNION {[1..n -> BoxingValues] : n \in 0..MaxArgs}

\* no operator registered; the caller holds an argument list
InitBoxing ==
    /\ operators_ = EmptyMap
    /\ heap = EmptyMap
    /\ nextHandle = 0
    /\ registration_callbacks_ = <<>>
    /\ cbLog = <<>>
    /\ profiling_enabled_ = FALSE
    /\ call_stats_ = EmptyMap
    /\ globalState = [autograd_enabled_ |-> FALSE, tracing_enabled_ |-> FALSE,
                      profiling_enabled_ |-> FALSE]
    /\ args \in BoxingArgLists
    /\ stack = <<>>
    /\ trace = <<>>
    /\ status = "idle"
    /\ result = NoResult
    /\ lastOp = NoOp
    /\ lastReg = [n \in OperatorNames |-> "none"]
    /\ pc = [t \in Threads |-> "idle"]
    /\ registry_mutex_ = NoThread
    /\ stats_mutex_ = NoThread
    /\ local = [t \in Threads |-> NoLocal]

NextBoxing == \E f \in NativeFunctions : CallUnboxedKernel(f)

SpecBoxing == InitBoxing /\ [][NextBoxing]_vars

\* the positions of the argument list whose variant is not the one the
\* parameter of f at that position expects
mismatches(f, a) ==
    {i \in 1..Len(a) : a[i].tag # expectedTag(f.params[i])}

\* C19: a kernel boxed from a native function of n parameters fails with
\* ArityMismatch, reporting n expected and the length of the list observed,
\* exactly when the argument list is not n long; it then has extracted no
\* argument and has not called the native function.
C19_ArityCheckedFirst ==
    lastOp.op = "callUnboxed"
        => LET f == nativeFunction(lastOp.arg)
               n == Len(f.params)
               ret == lastOp.ret
           IN  /\ (ret.outcome.error = "ArityMismatch") = (Len(args) # n)
               /\ Len(args) # n
                      => /\ ret.outcome = Thrown("ArityMismatch", <<n, Len(args)>>)
                         /\ ret.extracted = <<>>
                         /\ ret.ran = <<>>

\* C19 witness: add_cpu_unboxed, of two parameters, called with one tensor
\* has failed with ArityMismatch (expected 2, observed 1).
C19_Witness ==
    /\ lastOp.op = "callUnboxed"
    /\ lastOp.arg = "add_cpu_unboxed"
    /\ args = <<IValueTensor(make_tensor_cpu)>>
    /\ lastOp.ret.outcome = Thrown("ArityMismatch", <<2, 1>>)

\* C20: with the right number of arguments, the boxed call fails with
\* TypeMismatch exactly when some argument holds another variant than its
\* parameter expects; the failure is raised on such an argument and the
\* native function is not called. f(Tensor, Tensor) called with
\* [tensor, Double] fails on the second argument.
C20_TypeMismatchBeforeNativeCall ==
    lastOp.op = "callUnboxed"
        => LET f == nativeFunction(lastOp.arg)
               ret == lastOp.ret
           IN  Len(args) = Len(f.params)
                   => /\ (ret.outcome.error = "TypeMismatch") = (mismatches(f, args) # {})
                      /\ mismatches(f, args) # {}
                             => /\ ret.outcome.kind = "error"
                                /\ ret.outcome.value[2] \in mismatches(f, args)
                                /\ ret.ran = <<>>
                      /\ (lastOp.arg = "add_cpu_unboxed" /\ args[1].tag = "Tensor"
                              /\ args[2].tag = "Double")
                             => ret.outcome = Thrown("TypeMismatch", <<"Tensor", 2>>)

\* C20 witness: add_cpu_unboxed called with a tensor and a Double has
\* failed with TypeMismatch on the second argument.
C20_Witness ==
    /\ lastOp.op = "callUnboxed"
    /\ lastOp.arg = "add_cpu_unboxed"
    /\ args = <<IValueTensor(make_tensor_cpu), IValueDouble(1)>>
    /\ lastOp.ret.outcome = Thrown("TypeMismatch", <<"Tensor", 2>>)
    /\ lastOp.ret.ran = <<>>

\* C21: when the native function of an unboxed kernel runs, on a well-typed
\* argument list, each of its parameters reads the payload of the argument
\* at its position, two parameters of one by-reference type included.
C21_ParametersObserveArguments ==
    (lastOp.op = "callUnboxed" /\ lastOp.ret.ran # <<>>)
        => \A i \in 1..Len(args) : lastOp.ret.ran[1].observed[i] = args[i].payload

\* C22: a boxed call that ran its native function returns the empty list
\* when the function returns void, and otherwise one value that holds the
\* variant of the return type and the value the function returned.
C22_ReturnWrappedOnce ==
    (lastOp.op = "callUnboxed" /\ lastOp.ret.ran # <<>>)
        => LET f == nativeFunction(lastOp.arg)
               list == lastOp.ret.outcome.value
           IN  /\ lastOp.ret.outcome.kind = "value"
               /\ f.returns = "void" => list = <<>>
               /\ f.returns # "void"
                      => /\ Len(list) = 1
                         /\ list[1].tag = (IF f.returns = "double" THEN "Double" ELSE "Tensor")
                         /\ list[1].payload = lastOp.ret.ran[1].returned

\* C22 witness: print_tensor_info_unboxed, which returns void, has run on
\* a tensor and the boxed call has returned the empty list.
C22_Witness ==
    /\ lastOp.op = "callUnboxed"
    /\ lastOp.arg = "print_tensor_info_unboxed"
    /\ args = <<IValueTensor(make_tensor_cuda)>>
    /\ lastOp.ret.ran # <<>>
    /\ lastOp.ret.outcome = Returned(<<>>)

-----------------------------------------------------------------------------
(* The key set of a tensor and of an argument list (SpecKeys)              *)

MaxKeyArgs == 2

\* TensorImpl::setRequiresGrad
setRequiresGrad(tensor, requires_grad) == [tensor EXCEPT !.requires_grad_ = requires_grad]

keysVars == <<profiling_enabled_, call_stats_, stack, trace, status, result>>

\* GlobalDispatchState::instance().set...Enabled(enabled)
SetFlag(flag, enabled) ==
    /\ globalState' = setFlag(globalState, flag, enabled)
    /\ lastOp' = [op |-> "setFlag", arg |-> flag, ret |-> enabled, found |-> TRUE]
    /\ UNCHANGED <<registryVars, threadVars, keysVars, args>>

\* args[i].toTensor()->setRequiresGrad(requires_grad)
SetRequiresGrad(i, requires_grad) ==
    /\ i \in 1..Len(args)
    /\ isTensor(args[i])
    /\ args[i].payload # nullTensor
    /\ args' = [args EXCEPT ![i].payload = setRequiresGrad(@, requires_grad)]
    /\ lastOp' = [op |-> "setRequiresGrad", arg |-> i, ret |-> requires_grad, found |-> TRUE]
    /\ UNCHANGED <<registryVars, threadVars, keysVars, globalState>>

\* GlobalDispatchState::instance().computeFunctionalityKeys()
ComputeFunctionalityKeys ==
    /\ lastOp' = [op |-> "computeFunctionalityKeys", arg |-> "none",
                  ret |-> computeFunctionalityKeys(globalState), found |-> TRUE]
    /\ UNCHANGED <<registryVars, threadVars, keysVars, globalState, args>>

\* args[i].toTensor()->keySet()
KeySet(i) ==
    /\ i \in 1..Len(args)
    /\ isTensor(args[i])
    /\ args[i].payload # nullTensor
    /\ lastOp' = [op |-> "keySet", arg |-> i, ret |-> keySet(args[i].payload, globalState),
                  found |-> TRUE]
    /\ UNCHANGED <<registryVars, threadVars, keysVars, globalState, args>>

\* handle->computeDispatchKeySet(args)
ComputeDispatchKeySet ==
    /\ lastOp' = [op |-> "computeDispatchKeySet", arg |-> "none",
                  ret |-> handleComputeDispatchKeySet(args, globalState), found |-> TRUE]
    /\ UNCHANGED <<registryVars, threadVars, keysVars, globalState, args>>

\* the arguments that hold no tensor
Scalars == {IValueDouble(1), IValueInt(3)}

isScalar(v) == ~isTensor(v) /\ ~isTensorList(v)

\* the caller puts one more scalar into the list, at position i
AddScalar(i, v) ==
    /\ Len(args) < MaxKeyArgs
    /\ i \in 1..(Len(args) + 1)
    /\ args' = SubSeq(args, 1, i - 1) \o <<v>> \o SubSeq(args, i, Len(args))
    /\ lastOp' = [op |-> "addScalar", arg |-> i, ret |-> 0, found |-> TRUE]
    /\ UNCHANGED <<registryVars, threadVars, keysVars, globalState>>

\* the caller takes the scalar at position i out of the list
RemoveScalar(i) ==
    /\ i \in 1..Len(args)
    /\ isScalar(args[i])
    /\ args' = SubSeq(args, 1, i - 1) \o SubSeq(args, i + 1, Len(args))
    /\ lastOp' = [op |-> "removeScalar", arg |-> i, ret |-> 0, found |-> TRUE]
    /\ UNCHANGED <<registryVars, threadVars, keysVars, globalState>>

\* the caller replaces the scalar at position i by another scalar
ChangeScalar(i, v) ==
    /\ i \in 1..Len(args)
    /\ isScalar(args[i])
    /\ args[i] # v
    /\ args' = [args EXCEPT ![i] = v]
    /\ lastOp' = [op |-> "changeScalar", arg |-> i, ret |-> 0, found |-> TRUE]
    /\ UNCHANGED <<registryVars, threadVars, keysVars, globalState>>

\* the values of the argument lists: tensors, an empty tensor pointer,
\* tensor lists and scalars
KeyValues ==
    {IValueTensor(make_tensor_cpu),
     IValueTensor(setRequiresGrad(make_tensor_cuda, TRUE)),
     IValueTensor(nullTensor),
     IValueTensorList(<<>>),
     IValueTensorList(<<make_tensor_cuda, setRequiresGrad(make_tensor_cpu, TRUE)>>),
     IValueTensorList(<<nullTensor>>)} \cup Scalars

KeyArgLists == UNION {[1..n -> KeyValues] : n \in 0..MaxKeyArgs}

\* no flag set (GlobalDispatchState as constructed); the caller holds an
\* argument list
InitKeys ==
    /\ operators_ = EmptyMap
    /\ heap = EmptyMap
    /\ nextHandle = 0
    /\ registration_callbacks_ = <<>>
    /\ cbLog = <<>>
    /\ profiling_enabled_ = FALSE
    /\ call_stats_ = EmptyMap
    /\ globalState = [autograd_enabled_ |-> FALSE, tracing_enabled_ |-> FALSE,
                      profiling_enabled_ |-> FALSE]
    /\ args \in KeyArgLists
    /\ stack = <<>>
    /\ trace = <<>>
    /\ status = "idle"
    /\ result = NoResult
    /\ lastOp = NoOp
    /\ lastReg = [n \in OperatorNames |-> "none"]
    /\ pc = [t \in Threads |-> "idle"]
    /\ registry_mutex_ = NoThread
    /\ stats_mutex_ = NoThread
    /\ local = [t \in Threads |-> NoLocal]

NextKeys ==
    \/ \E flag \in GlobalFlags, enabled \in BOOLEAN : SetFlag(flag, enabled)
    \/ \E i \in 1..MaxKeyArgs, requires_grad \in BOOLEAN : SetRequiresGrad(i, requires_grad)
    \/ ComputeFunctionalityKeys
    \/ \E i \in 1..MaxKeyArgs : KeySet(i)
    \/ ComputeDispatchKeySet
    \/ \E i \in 1..MaxKeyArgs, v \in Scalars : AddScalar(i, v)
    \/ \E i \in 1..MaxKeyArgs : RemoveScalar(i)
    \/ \E i \in 1..MaxKeyArgs, v \in Scalars : ChangeScalar(i, v)

SpecKeys == InitKeys /\ [][NextKeys]_vars

\* the functionality keys whose flag in g is set
enabledKeys(g) ==
    {key \in {"Autograd", "Tracing", "Profiling"} :
        \/ key = "Autograd" /\ g.autograd_enabled_
        \/ key = "Tracing" /\ g.tracing_enabled_
        \/ key = "Profiling" /\ g.profiling_enabled_}

\* the key set the spec gives a tensor
keysOfTensor(tensor, g) ==
    {key \in DispatchKeys :
        \/ key = tensor.backend_key_
        \/ key = "Autograd" /\ tensor.requires_grad_
        \/ key \in enabledKeys(g)}

\* the non-null tensors found in the list, in Tensor and TensorList values
tensorsFound(a) ==
    ({a[i].payload : i \in {j \in 1..Len(a) : a[j].tag = "Tensor"}}
        \cup UNION {{a[i].payload[k] : k \in 1..Len(a[i].payload)} :
                       i \in {j \in 1..Len(a) : a[j].tag = "TensorList"}})
        \ {nullTensor}

\* the list without its scalars
RECURSIVE withoutScalars(_)
withoutScalars(a) ==
    IF a = <<>> THEN <<>>
    ELSE (IF isScalar(Head(a)) THEN <<>> ELSE <<Head(a)>>) \o withoutScalars(Tail(a))

\* C24: computeDispatchKeySet(args) is the union of the key sets of the
\* non-null tensors found in args, in Tensor and in TensorList values, and
\* the global functionality keys when there is none; a step that adds,
\* removes or changes a scalar argument leaves the key set of the list as it is.
C24_KeySetOfArguments ==
    /\ [](lastOp.op = "computeDispatchKeySet"
             => lastOp.ret = IF tensorsFound(args) = {}
                             THEN enabledKeys(globalState)
                             ELSE UNION {keysOfTensor(t, globalState) : t \in tensorsFound(args)})
    /\ [][lastOp'.op \in {"addScalar", "removeScalar", "changeScalar"}
             => /\ withoutScalars(args') = withoutScalars(args)
                /\ handleComputeDispatchKeySet(args', globalState')
                       = handleComputeDispatchKeySet(args, globalState)]_vars

\* C24 witness: with tracing enabled, the key set of a list holding the
\* scalar 1 and a tensor list (a CUDA tensor and a CPU tensor requiring
\* grad) has been computed: {Autograd, Tracing, CPU, CUDA}.
C24_Witness ==
    /\ lastOp.op = "computeDispatchKeySet"
    /\ args = <<IValueDouble(1),
                IValueTensorList(<<make_tensor_cuda, setRequiresGrad(make_tensor_cpu, TRUE)>>)>>
    /\ globalState.tracing_enabled_
    /\ lastOp.ret = {"Autograd", "Tracing", "CPU", "CUDA"}

\* C25: keySet() of a tensor is its backend key, Autograd if it requires
\* grad, and the functionality keys whose global flag is set at the time of
\* the call, and nothing else; computeFunctionalityKeys() is the set of the
\* functionality keys whose flag is set, whatever flags were written before.
C25_KeySetOfTensor ==
    /\ lastOp.op = "keySet"
           => LET tensor == args[lastOp.arg].payload
              IN  \A key \in DispatchKeys :
                      key \in lastOp.ret
                          <=> \/ key = tensor.backend_key_
                              \/ key = "Autograd" /\ tensor.requires_grad_
                              \/ key = "Autograd" /\ globalState.autograd_enabled_
                              \/ key = "Tracing" /\ globalState.tracing_enabled_
                              \/ key = "Profiling" /\ globalState.profiling_enabled_
    /\ lastOp.op = "computeFunctionalityKeys"
           => \A key \in DispatchKeys :
                  key \in lastOp.ret
                      <=> \/ key = "Autograd" /\ globalState.autograd_enabled_
                          \/ key = "Tracing" /\ globalState.tracing_enabled_
                          \/ key = "Profiling" /\ globalState.profiling_enabled_

\* C25 witness: with profiling enabled and the other flags clear, the key
\* set of a CUDA tensor that requires grad came out as {Autograd, Profiling, CUDA}.
C25_Witness ==
    /\ lastOp.op = "keySet"
    /\ args[lastOp.arg].payload = setRequiresGrad(make_tensor_cuda, TRUE)
    /\ globalState = [autograd_enabled_ |-> FALSE, tracing_enabled_ |-> FALSE,
                      profiling_enabled_ |-> TRUE]
    /\ lastOp.ret = {"Autograd", "Profiling", "CUDA"}

-----------------------------------------------------------------------------
(* setKernel and removeKernel on one OperatorHandle (SpecKernels)          *)

kernelsVars == <<operators_, nextHandle, registration_callbacks_, cbLog>>

NoKernelOp == [op |-> "none", kernel |-> "none"]

\* the keys the caller sets and removes kernels for: their enumerator order
\* (CPU, CUDA, Autograd, Undefined, CatchAll) is not their priority order
KernelKeys == {"CPU", "CUDA", "Autograd", "Undefined", "CatchAll"}

\* handle.setKernel(key, kernel)
SetKernelFor(key, kernel) ==
    /\ heap' = [heap EXCEPT ![1] = setKernel(@, key, kernel)]
    /\ lastReg' = [lastReg EXCEPT ![key] = [op |-> "setKernel", kernel |-> kernel]]
    /\ lastOp' = [op |-> "setKernel", arg |-> key, ret |-> kernel, found |-> TRUE]
    /\ UNCHANGED <<kernelsVars, callVars, threadVars>>

\* handle.removeKernel(key)
RemoveKernelFor(key) ==
    /\ heap' = [heap EXCEPT ![1] = removeKernel(@, key)]
    /\ lastReg' = [lastReg EXCEPT ![key] = [op |-> "removeKernel", kernel |-> "none"]]
    /\ lastOp' = [op |-> "removeKernel", arg |-> key, ret |-> 0, found |-> TRUE]
    /\ UNCHANGED <<kernelsVars, callVars, threadVars>>

\* handle.hasKernel(key)
HasKernel(key) ==
    /\ lastOp' = [op |-> "hasKernel", arg |-> key, ret |-> hasKernel(heap[1], key),
                  found |-> TRUE]
    /\ UNCHANGED <<registryVars, callVars, threadVars>>

\* handle.findKernel(DispatchKeySet(key))
LookupKernel(key) ==
    /\ lastOp' = [op |-> "findKernel", arg |-> key, ret |-> findKernel(heap[1], {key}),
                  found |-> TRUE]
    /\ UNCHANGED <<registryVars, callVars, threadVars>>

\* handle.getRegisteredKeys()
GetRegisteredKeys ==
    /\ lastOp' = [op |-> "getRegisteredKeys", arg |-> "none",
                  ret |-> getRegisteredKeys(heap[1]), found |-> TRUE]
    /\ UNCHANGED <<registryVars, callVars, threadVars>>

\* a handle as its constructor leaves it: the table empty
InitKernels ==
    /\ operators_ = ("add" :> 1)
    /\ heap = (1 :> EmptyMap)
    /\ nextHandle = 1
    /\ registration_callbacks_ = <<>>
    /\ cbLog = <<>>
    /\ profiling_enabled_ = FALSE
    /\ call_stats_ = EmptyMap
    /\ globalState = [autograd_enabled_ |-> FALSE, tracing_enabled_ |-> FALSE,
                      profiling_enabled_ |-> FALSE]
    /\ args = <<>>
    /\ stack = <<>>
    /\ trace = <<>>
    /\ status = "idle"
    /\ result = NoResult
    /\ lastOp = NoOp
    /\ lastReg = [key \in DispatchKeys |-> NoKernelOp]
    /\ pc = [t \in Threads |-> "idle"]
    /\ registry_mutex_ = NoThread
    /\ stats_mutex_ = NoThread
    /\ local = [t \in Threads |-> NoLocal]

NextKernels ==
    \/ \E key \in KernelKeys, kernel \in TableKernels : SetKernelFor(key, kernel)
    \/ \E key \in KernelKeys : RemoveKernelFor(key)
    \/ \E key \in DispatchKeys : HasKernel(key)
    \/ \E key \in DispatchKeys : LookupKernel(key)
    \/ GetRegisteredKeys

SpecKernels == InitKernels /\ [][NextKernels]_vars

\* C26: after any sequence of setKernel and removeKernel calls, a key has a
\* kernel exactly when the last call on that key was a setKernel, and then
\* it has the kernel of that call (so calls on other keys did not touch it);
\* hasKernel and the lookup of the key answer accordingly, and
\* getRegisteredKeys lists exactly the keys that have a kernel, each once,
\* in ascending order of priority number.
C26_OneKernelPerKey ==
    LET table == heap[1]
    IN  /\ \A key \in DispatchKeys :
               /\ (key \in DOMAIN table) = (lastReg[key].op = "setKernel")
               /\ key \in DOMAIN table => table[key] = lastReg[key].kernel
        /\ lastOp.op = "hasKernel"
               => lastOp.ret = (lastReg[lastOp.arg].op = "setKernel")
        /\ (lastOp.op = "findKernel" /\ lastReg[lastOp.arg].op = "setKernel")
               => lastOp.ret = [key |-> lastOp.arg, fn |-> lastReg[lastOp.arg].kernel]
        /\ lastOp.op = "getRegisteredKeys"
               => LET keys == lastOp.ret
                  IN  /\ {keys[i] : i \in 1..Len(keys)}
                             = {key \in DispatchKeys : lastReg[key].op = "setKernel"}
                      /\ \A i \in 1..Len(keys), j \in 1..Len(keys) :
                             i < j => dispatchKeyPriority(keys[i]) < dispatchKeyPriority(keys[j])

\* C26 witness: the last call on CPU set add_cuda_kernel, the last on CUDA
\* removed its kernel, Autograd has one; the lookup of CPU has returned
\* add_cuda_kernel.
C26_Witness ==
    /\ lastReg["CPU"] = [op |-> "setKernel", kernel |-> "add_cuda_kernel"]
    /\ lastReg["CUDA"].op = "removeKernel"
    /\ lastReg["Autograd"].op = "setKernel"
    /\ lastOp.op = "findKernel"
    /\ lastOp.arg = "CPU"
    /\ lastOp.ret = [key |-> "CPU", fn |-> "add_cuda_kernel"]

-----------------------------------------------------------------------------
(* DispatchKeySet and the priority table by themselves (SpecKeySet)        *)

\* dispatchKeyPriority(key) for each of the keys
DispatchKeyPriority ==
    /\ lastOp = NoOp
    /\ lastOp' = [op |-> "dispatchKeyPriority", arg |-> "none",
                  ret |-> [key \in DispatchKeys |-> dispatchKeyPriority(key)], found |-> TRUE]
    /\ UNCHANGED <<registryVars, callVars, threadVars>>

\* ks.highestPriorityKey() and ks.toVector()
HighestPriorityKey(ks) ==
    /\ lastOp = NoOp
    /\ lastOp' = [op |-> "highestPriorityKey", arg |-> ks,
                  ret |-> [highest |-> highestPriorityKey(ks), ordered |-> toVector(ks)],
                  found |-> TRUE]
    /\ UNCHANGED <<registryVars, callVars, threadVars>>

\* the operators on two key sets: a | b, a & b, a - b, (a | b) - b, and
\* what a holds after a |= b, a &= b, a -= b
Operators(a, b) ==
    /\ lastOp = NoOp
    /\ lastOp' = [op |-> "operators", arg |-> <<a, b>>,
                  ret |-> [or |-> opOr(a, b), and |-> opAnd(a, b), minus |-> opMinus(a, b),
                           orMinus |-> opMinus(opOr(a, b), b),
                           orAssign |-> opOrAssign(a, b), andAssign |-> opAndAssign(a, b),
                           minusAssign |-> opMinusAssign(a, b)],
                  found |-> TRUE]
    /\ UNCHANGED <<registryVars, callVars, threadVars>>

\* a.add(key) and a.remove(key), each on its own copy of a, with has(key)
\* asked afterwards
AddRemove(a, key) ==
    /\ lastOp = NoOp
    /\ lastOp' = [op |-> "addRemove", arg |-> <<a, key>>,
                  ret |-> [added |-> add(a, key), hasAfterAdd |-> has(add(a, key), key),
                           removed |-> remove(a, key),
                           hasAfterRemove |-> has(remove(a, key), key)],
                  found |-> TRUE]
    /\ UNCHANGED <<registryVars, callVars, threadVars>>

\* nothing registered, nothing called yet
InitKeySet ==
    /\ operators_ = EmptyMap
    /\ heap = EmptyMap
    /\ nextHandle = 0
    /\ registration_callbacks_ = <<>>
    /\ cbLog = <<>>
    /\ profiling_enabled_ = FALSE
    /\ call_stats_ = EmptyMap
    /\ globalState = [autograd_enabled_ |-> FALSE, tracing_enabled_ |-> FALSE,
                      profiling_enabled_ |-> FALSE]
    /\ args = <<>>
    /\ stack = <<>>
    /\ trace = <<>>
    /\ status = "idle"
    /\ result = NoResult
    /\ lastOp = NoOp
    /\ lastReg = [n \in OperatorNames |-> "none"]
    /\ pc = [t \in Threads |-> "idle"]
    /\ registry_mutex_ = NoThread
    /\ stats_mutex_ = NoThread
    /\ local = [t \in Threads |-> NoLocal]

NextKeySet ==
    \/ DispatchKeyPriority
    \/ \E ks \in KeySets : HighestPriorityKey(ks)
    \/ \E a \in KeySets, b \in KeySets : Operators(a, b)
    \/ \E a \in KeySets, key \in DispatchKeys : AddRemove(a, key)

SpecKeySet == InitKeySet /\ [][NextKeySet]_vars

\* the priority numbers of the spec's table
priorityNumber ==
    [key \in DispatchKeys |->
        CASE key = "Autograd" -> 0
          [] key = "Tracing" -> 1
          [] key = "Profiling" -> 2
          [] key = "CPU" -> 10
          [] key = "CUDA" -> 11
          [] key = "CatchAll" -> 100
          [] key = "Undefined" -> 255]

\* C28: for a non-empty key set S, highestPriorityKey is a member of S with
\* a priority number not above that of any member of S, and it is the first
\* element of toVector(S), which lists the members of S, each once and
\* nothing else, in ascending order of priority number; for the empty set
\* highestPriorityKey is Undefined.
C28_HighestPriorityIsMinimum ==
    lastOp.op = "highestPriorityKey"
        => LET S == lastOp.arg
               highest == lastOp.ret.highest
               ordered == lastOp.ret.ordered
           IN  /\ {ordered[i] : i \in 1..Len(ordered)} = S
               /\ Len(ordered) = Cardinality(S)
               /\ \A i \in 1..Len(ordered), j \in 1..Len(ordered) :
                      i < j => priorityNumber[ordered[i]] < priorityNumber[ordered[j]]
               /\ S # {} => /\ highest \in S
                            /\ \A key \in S : priorityNumber[highest] <= priorityNumber[key]
                            /\ highest = ordered[1]
               /\ S = {} => highest = "Undefined"

\* C28 witness: for {CPU, Tracing, Undefined} the highest-priority key came
\* out as Tracing and the ordered sequence as Tracing, CPU, Undefined.
C28_Witness ==
    /\ lastOp.op = "highestPriorityKey"
    /\ lastOp.arg = {"CPU", "Tracing", "Undefined"}
    /\ lastOp.ret.highest = "Tracing"
    /\ lastOp.ret.ordered = <<"Tracing", "CPU", "Undefined">>

\* C29: the priority numbers of the seven keys are pairwise distinct; every
\* functionality key has a smaller number than every backend key, every
\* backend key a smaller one than CatchAll, and CatchAll a smaller one than
\* Undefined.
C29_PriorityTableOrdered ==
    lastOp.op = "dispatchKeyPriority"
        => LET priority == lastOp.ret
           IN  /\ \A a \in DispatchKeys, b \in DispatchKeys :
                      a # b => priority[a] # priority[b]
               /\ \A f \in {"Autograd", "Tracing", "Profiling"}, b \in {"CPU", "CUDA"} :
                      priority[f] < priority[b]
               /\ \A b \in {"CPU", "CUDA"} : priority[b] < priority["CatchAll"]
               /\ priority["CatchAll"] < priority["Undefined"]

\* C29 witness: the table has been read, and CPU, first in the enum, has a
\* larger priority number than Profiling, last of the functionality keys.
C29_Witness ==
    /\ lastOp.op = "dispatchKeyPriority"
    /\ lastOp.ret["Profiling"] < lastOp.ret["CPU"]
    /\ lastOp.ret["CUDA"] < lastOp.ret["CatchAll"]

\* C30: for key sets A and B, A | A = A, A & A = A, A - A is empty,
\* (A | B) - B is a subset of A, and |=, &=, -= leave in A what |, &, -
\* return; after add(k) has(k) is true, after remove(k) it is false, and
\* both leave the membership of every other key as it was.
C30_SetAlgebra ==
    /\ lastOp.op = "operators"
           => LET A == lastOp.arg[1]
                  B == lastOp.arg[2]
                  r == lastOp.ret
              IN  /\ A = B => (r.or = A /\ r.and = A /\ r.minus = {})
                  /\ r.orMinus \subseteq A
                  /\ r.orAssign = r.or
                  /\ r.andAssign = r.and
                  /\ r.minusAssign = r.minus
    /\ lastOp.op = "addRemove"
           => LET A == lastOp.arg[1]
                  k == lastOp.arg[2]
                  r == lastOp.ret
              IN  /\ r.hasAfterAdd
                  /\ ~r.hasAfterRemove
                  /\ \A other \in DispatchKeys \ {k} :
                         /\ (other \in r.added) = (other \in A)
                         /\ (other \in r.removed) = (other \in A)

\* C30 witness: the operators have been applied to A = {CPU, Autograd} and
\* B = {Autograd, Tracing}: (A | B) - B is {CPU}, a proper subset of A.
C30_Witness ==
    /\ lastOp.op = "operators"
    /\ lastOp.arg = <<{"CPU", "Autograd"}, {"Autograd", "Tracing"}>>
    /\ lastOp.ret.orMinus = {"CPU"}
    /\ lastOp.ret.or = {"CPU", "Autograd", "Tracing"}

-----------------------------------------------------------------------------
(* IValue: tag, payload, copies, moves and destruction (SpecValue)          *)
(* args holds the IValue objects of the caller; heap holds the live tensors *)
(* and the live payloads allocated with new, each under its address. An     *)
(* address is free again once its object is deleted. A payload is written   *)
(* as the sequence of the numbers it consists of: one number for a double,  *)
(* an int or a bool (1 for true), the characters of a string, the elements  *)
(* of a list, the address of the tensor of a shared_ptr.                    *)

MaxObjects == 6

\* enum class IValue::Tag
Tags ==
    {"None", "Tensor", "Double", "Int", "Bool", "String", "IntList", "DoubleList",
     "TensorList"}

\* the variants whose constructor allocates the payload with new
isHeapTag(tag) == tag \in {"Tensor", "String", "IntList", "DoubleList", "TensorList"}

\* an IValue that is not constructed, or whose destructor has run
NoValue == [tag |-> "destroyed", payload |-> 0]

isAlive(value) == value.tag \in Tags

\* the shared_ptrs a payload of the given variant holds
tensorsHeld(tag, content) ==
    IF tag \in {"Tensor", "TensorList"} THEN content ELSE <<>>

\* the heap without the object at address id
without(objects, id) == [x \in DOMAIN objects \ {id} |-> objects[x]]

\* what a delete leaves at an address that holds no object of the kind
\* deleted: the heap is corrupted there
corrupted(objects, id) ==
    [x \in DOMAIN objects \cup {id} |->
        IF x = id THEN [kind |-> "corrupted"] ELSE objects[x]]

isObject(objects, id, kind) == id \in DOMAIN objects /\ objects[id].kind = kind

\* the k lowest free addresses, in order
RECURSIVE fresh(_, _)
fresh(taken, k) ==
    IF k = 0 THEN <<>>
    ELSE LET id == CHOOSE x \in (1..MaxObjects) \ taken :
                       \A y \in (1..MaxObjects) \ taken : x <= y
         IN  <<id>> \o fresh(taken \cup {id}, k - 1)

\* a copy of a shared_ptr to tensor t: one more reference
retain(objects, t) == [objects EXCEPT ![t].refs = @ + 1]

\* the destructor of a shared_ptr to tensor t: one reference less, and the
\* tensor destroyed with the last one
release(objects, t) ==
    IF ~isObject(objects, t, "tensor") THEN corrupted(objects, t)
    ELSE IF objects[t].refs = 1 THEN without(objects, t)
    ELSE [objects EXCEPT ![t].refs = @ - 1]

RECURSIVE retainAll(_, _)
retainAll(objects, tensors) ==
    IF tensors = <<>> THEN objects
    ELSE retainAll(retain(objects, Head(tensors)), Tail(tensors))

RECURSIVE releaseAll(_, _)
releaseAll(objects, tensors) ==
    IF tensors = <<>> THEN objects
    ELSE releaseAll(release(objects, Head(tensors)), Tail(tensors))

\* make_tensor_cpu(...): new tensors, each held by one shared_ptr
RECURSIVE makeTensors(_, _)
makeTensors(objects, tensors) ==
    IF tensors = <<>> THEN objects
    ELSE makeTensors(objects @@ (Head(tensors) :> [kind |-> "tensor", refs |-> 1]),
                     Tail(tensors))

\* new T(std::move(value)) at address id: the shared_ptrs move in
newPayload(objects, id, tag, content) ==
    objects @@ (id :> [kind |-> "payload", tag |-> tag, content |-> content])

\* new T(*other.payload) at address id: the shared_ptrs are copied
copyPayload(objects, id, tag, content) ==
    newPayload(retainAll(objects, tensorsHeld(tag, content)), id, tag, content)

\* delete of the payload at address id: its shared_ptrs are destructed
deletePayload(objects, id) ==
    IF ~isObject(objects, id, "payload") THEN corrupted(objects, id)
    ELSE releaseAll(without(objects, id),
                    tensorsHeld(objects[id].tag, objects[id].content))

\* IValue::destroy: delete the payload of the active variant, if it has one
destroy(objects, value) ==
    IF isHeapTag(value.tag) THEN deletePayload(objects, value.payload) ELSE objects

\* the constructors from a payload: the value, given the address id of the
\* payload it allocates (unused by the variants stored in the union)
constructed(tag, content, id) ==
    [tag |-> tag, payload |-> IF isHeapTag(tag) THEN id
                              ELSE IF tag = "None" THEN 0
                              ELSE content[1]]

\* what the active payload of the value is: the union member, or *pointer
contentOf(objects, value) ==
    IF value.tag = "None" THEN <<>>
    ELSE IF ~isHeapTag(value.tag) THEN <<value.payload>>
    ELSE IF isObject(objects, value.payload, "payload")
         THEN objects[value.payload].content
         ELSE <<-1>>

\* the mutant of movedFrom that leaves the tag of the source as it is
movedFromKeepsTag(value) == value

\* other.tag_ = Tag::None at the end of the move constructor and of the
\* move assignment: the payload bits stay
movedFrom(value) == [value EXCEPT !.tag = "None"]

\* the mutant of accessor that hands out the payload whatever the tag
accessorUnchecked(objects, value, tag) == Returned(<<contentOf(objects, value)>>)

\* toTensor, toDouble, ... toTensorList: the accessor of variant tag
accessor(objects, value, tag) ==
    IF value.tag # tag THEN Thrown("TypeMismatch", <<tag>>)
    ELSE Returned(<<contentOf(objects, value)>>)

\* the switch of the copy constructor and of the copy assignment: the
\* copy of other, given the address id of the payload it allocates
copyOf(objects, other, id) ==
    constructed(other.tag, contentOf(objects, other), id)

heapAfterCopy(objects, other, id) ==
    IF isHeapTag(other.tag)
    THEN copyPayload(objects, id, other.tag, contentOf(objects, other))
    ELSE objects

\* how many addresses the copy of other takes
allocatedBy(other) == IF isHeapTag(other.tag) THEN 1 ELSE 0

\* how many tensors the caller makes for the constructor of a variant
tensorsFor(tag) == IF tag = "Tensor" THEN 1 ELSE IF tag = "TensorList" THEN 2 ELSE 0

\* the payload the caller passes to the constructor of a variant, given
\* the addresses of the tensors made for it
payloadFor(tag, made) ==
    CASE tag = "None" -> <<>>
      [] tag = "Tensor" -> made
      [] tag = "Double" -> <<2>>
      [] tag = "Int" -> <<3>>
      [] tag = "Bool" -> <<1>>
      [] tag = "String" -> <<115>>
      [] tag = "IntList" -> <<1, 2>>
      [] tag = "DoubleList" -> <<1>>
      [] tag = "TensorList" -> made

valueVars == <<operators_, nextHandle, registration_callbacks_, cbLog,
               profiling_enabled_, call_stats_, globalState, stack, trace, status,
               result, threadVars>>

\* IValue v; or IValue v(payload): e.g. IValue(make_tensor_cpu({2, 2}))
Construct(d, tag) ==
    LET used == tensorsFor(tag) + (IF isHeapTag(tag) THEN 1 ELSE 0)
    IN  /\ ~isAlive(args[d])
        /\ Cardinality(DOMAIN heap) + used <= MaxObjects
        /\ LET ids == fresh(DOMAIN heap, used)
               made == SubSeq(ids, 1, tensorsFor(tag))
               content == payloadFor(tag, made)
               id == IF used = 0 THEN 0 ELSE ids[used]
           IN  /\ args' = [args EXCEPT ![d] = constructed(tag, content, id)]
               /\ heap' = IF isHeapTag(tag)
                          THEN newPayload(makeTensors(heap, made), id, tag, content)
                          ELSE heap
               /\ lastReg' = [lastReg EXCEPT ![d] = [tag |-> tag, value |-> content]]
        /\ lastOp' = [op |-> "construct", arg |-> <<d, d>>, ret |-> 0, found |-> TRUE]
        /\ UNCHANGED valueVars

\* IValue d(s): the copy constructor
CopyConstruct(d, s) ==
    /\ ~isAlive(args[d])
    /\ isAlive(args[s])
    /\ Cardinality(DOMAIN heap) + allocatedBy(args[s]) <= MaxObjects
    /\ LET id == IF isHeapTag(args[s].tag) THEN fresh(DOMAIN heap, 1)[1] ELSE 0
       IN  /\ args' = [args EXCEPT ![d] = copyOf(heap, args[s], id)]
           /\ heap' = heapAfterCopy(heap, args[s], id)
    /\ lastReg' = [lastReg EXCEPT ![d] = lastReg[s]]
    /\ lastOp' = [op |-> "copy", arg |-> <<d, s>>, ret |-> 0, found |-> TRUE]
    /\ UNCHANGED valueVars

\* IValue d(std::move(s)): the move constructor
MoveConstruct(d, s) ==
    /\ ~isAlive(args[d])
    /\ isAlive(args[s])
    /\ args' = [args EXCEPT ![d] = args[s], ![s] = movedFrom(args[s])]
    /\ lastReg' = [lastReg EXCEPT ![d] = lastReg[s],
                                  ![s] = [tag |-> "None", value |-> <<>>]]
    /\ lastOp' = [op |-> "move", arg |-> <<d, s>>, ret |-> 0, found |-> TRUE]
    /\ UNCHANGED <<heap, valueVars>>

\* d = s: the copy assignment; d = d changes nothing
CopyAssign(d, s) ==
    LET destroyed == destroy(heap, args[d])
    IN  /\ isAlive(args[d])
        /\ isAlive(args[s])
        /\ IF d = s
           THEN UNCHANGED <<args, heap, lastReg>>
           ELSE /\ Cardinality(DOMAIN destroyed) + allocatedBy(args[s]) <= MaxObjects
                /\ LET id == IF isHeapTag(args[s].tag)
                             THEN fresh(DOMAIN destroyed, 1)[1] ELSE 0
                   IN  /\ args' = [args EXCEPT ![d] = copyOf(destroyed, args[s], id)]
                       /\ heap' = heapAfterCopy(destroyed, args[s], id)
                /\ lastReg' = [lastReg EXCEPT ![d] = lastReg[s]]
        /\ lastOp' = [op |-> "copy_assign", arg |-> <<d, s>>, ret |-> 0, found |-> TRUE]
        /\ UNCHANGED valueVars

\* d = std::move(s): the move assignment; d = std::move(d) changes nothing
MoveAssign(d, s) ==
    /\ isAlive(args[d])
    /\ isAlive(args[s])
    /\ IF d = s
       THEN UNCHANGED <<args, heap, lastReg>>
       ELSE /\ args' = [args EXCEPT ![d] = args[s], ![s] = movedFrom(args[s])]
            /\ heap' = destroy(heap, args[d])
            /\ lastReg' = [lastReg EXCEPT ![d] = lastReg[s],
                                          ![s] = [tag |-> "None", value |-> <<>>]]
    /\ lastOp' = [op |-> "move_assign", arg |-> <<d, s>>, ret |-> 0, found |-> TRUE]
    /\ UNCHANGED valueVars

\* the end of the lifetime of d: ~IValue
Destruct(d) ==
    /\ isAlive(args[d])
    /\ args' = [args EXCEPT ![d] = NoValue]
    /\ heap' = destroy(heap, args[d])
    /\ lastReg' = [lastReg EXCEPT ![d] = [tag |-> "destroyed", value |-> <<>>]]
    /\ lastOp' = [op |-> "destruct", arg |-> <<d, d>>, ret |-> 0, found |-> TRUE]
    /\ UNCHANGED valueVars

\* d.toTensor(), d.toDouble(), ...: the accessor of variant tag; the copy
\* it returns is a temporary of the caller
Access(d, tag) ==
    /\ isAlive(args[d])
    /\ lastOp' = [op |-> "to", arg |-> <<d, tag>>, ret |-> accessor(heap, args[d], tag),
                  found |-> TRUE]
    /\ UNCHANGED <<args, heap, lastReg, valueVars>>

InitValue ==
    /\ operators_ = EmptyMap
    /\ heap = EmptyMap
    /\ nextHandle = 0
    /\ registration_callbacks_ = <<>>
    /\ cbLog = <<>>
    /\ profiling_enabled_ = FALSE
    /\ call_stats_ = EmptyMap
    /\ globalState = [autograd_enabled_ |-> FALSE, tracing_enabled_ |-> FALSE,
                      profiling_enabled_ |-> FALSE]
    /\ args = <<NoValue, NoValue>>
    /\ stack = <<>>
    /\ trace = <<>>
    /\ status = "idle"
    /\ result = NoResult
    /\ lastOp = NoOp
    /\ lastReg = <<[tag |-> "destroyed", value |-> <<>>], [tag |-> "destroyed", value |-> <<>>]>>
    /\ pc = [t \in Threads |-> "idle"]
    /\ registry_mutex_ = NoThread
    /\ stats_mutex_ = NoThread
    /\ local = [t \in Threads |-> NoLocal]

NextValue ==
    \/ \E d \in DOMAIN args, tag \in Tags : Construct(d, tag)
    \/ \E d \in DOMAIN args, s \in DOMAIN args : CopyConstruct(d, s)
    \/ \E d \in DOMAIN args, s \in DOMAIN args : MoveConstruct(d, s)
    \/ \E d \in DOMAIN args, s \in DOMAIN args : CopyAssign(d, s)
    \/ \E d \in DOMAIN args, s \in DOMAIN args : MoveAssign(d, s)
    \/ \E d \in DOMAIN args : Destruct(d)
    \/ \E d \in DOMAIN args, tag \in Tags \ {"None"} : Access(d, tag)

SpecValue == InitValue /\ [][NextValue]_vars

\* C31: a live IValue has exactly the tag of the variant last given to it
\* (by construction, copy or move, construction or assignment) and holds the
\* payload last given to it; the accessor of that variant returns the
\* payload, and every other accessor fails with a type mismatch.
C31_TagAndAccessors ==
    /\ \A d \in DOMAIN args :
          isAlive(args[d]) =>
              /\ args[d].tag = lastReg[d].tag
              /\ contentOf(heap, args[d]) = lastReg[d].value
    /\ lastOp.op = "to" =>
          LET d == lastOp.arg[1]
              tag == lastOp.arg[2]
          IN  IF tag = lastReg[d].tag
              THEN lastOp.ret = Returned(<<lastReg[d].value>>)
              ELSE lastOp.ret = Thrown("TypeMismatch", <<tag>>)

\* the first IValue holds a string that was moved into it from the second,
\* and toString has returned it
C31_Witness ==
    /\ lastOp.op = "to"
    /\ lastOp.arg = <<1, "String">>
    /\ lastOp.ret.kind = "value"
    /\ lastOp.ret.value = <<(<<115>>)>>
    /\ args[1].tag = "String"
    /\ args[2].tag = "None"
    /\ args[2].payload = args[1].payload

payloadIds == {id \in DOMAIN heap : heap[id].kind = "payload"}

\* the live IValues whose payload pointer is id
holders(id) == {d \in DOMAIN args : isHeapTag(args[d].tag) /\ args[d].payload = id}

\* how many shared_ptrs of a payload point to tensor t
occurrences(tag, content, t) ==
    Cardinality({i \in DOMAIN tensorsHeld(tag, content) : tensorsHeld(tag, content)[i] = t})

\* how many shared_ptrs of the payload of a value point to tensor t
heldBy(objects, value, t) ==
    IF isAlive(value) THEN occurrences(value.tag, contentOf(objects, value), t) ELSE 0

\* the shared_ptrs to tensor t in the payloads on the heap
referencesTo(t) ==
    Cardinality({pair \in payloadIds \X (1..2) :
                    /\ pair[2] \in DOMAIN tensorsHeld(heap[pair[1]].tag, heap[pair[1]].content)
                    /\ tensorsHeld(heap[pair[1]].tag, heap[pair[1]].content)[pair[2]] = t})

holdsTensors(value) == value.tag \in {"Tensor", "TensorList"}

\* the reference count of tensor t, 0 once it is destroyed
refsOf(objects, t) == IF isObject(objects, t, "tensor") THEN objects[t].refs ELSE 0

\* nothing on the heap is corrupted; every payload on the heap is held by
\* exactly one IValue and every IValue with a payload finds it on the heap
\* (it is deleted once, when its holder lets go of it, and not before); a
\* tensor is on the heap exactly as long as a payload refers to it
payloadsReleasedOnce ==
    /\ \A id \in DOMAIN heap : heap[id].kind # "corrupted"
    /\ \A id \in payloadIds : Cardinality(holders(id)) = 1
    /\ \A d \in DOMAIN args :
          isHeapTag(args[d].tag) => isObject(heap, args[d].payload, "payload")
    /\ \A t \in 1..MaxObjects :
          /\ isObject(heap, t, "tensor") <=> referencesTo(t) > 0
          /\ refsOf(heap, t) = referencesTo(t)

\* a copy step from a value holding tensors
copyAddsOneReference ==
    \A d \in DOMAIN args, s \in DOMAIN args :
        ((CopyConstruct(d, s) \/ (CopyAssign(d, s) /\ d # s)) /\ holdsTensors(args[s])) =>
            /\ args'[d].tag = args[s].tag
            /\ args'[s] = args[s]
            /\ contentOf(heap', args'[d]) = contentOf(heap, args[s])
            /\ contentOf(heap', args'[s]) = contentOf(heap, args[s])
            /\ args'[d].payload # args'[s].payload
            /\ \A t \in 1..MaxObjects :
                  refsOf(heap', t) =
                      refsOf(heap, t) + heldBy(heap, args[s], t) - heldBy(heap, args[d], t)

\* a move step from a value holding tensors
moveKeepsReferences ==
    \A d \in DOMAIN args, s \in DOMAIN args :
        ((MoveConstruct(d, s) \/ (MoveAssign(d, s) /\ d # s)) /\ holdsTensors(args[s])) =>
            /\ args'[s].tag = "None"
            /\ args'[d].tag = args[s].tag
            /\ contentOf(heap', args'[d]) = contentOf(heap, args[s])
            /\ \A t \in 1..MaxObjects :
                  refsOf(heap', t) = refsOf(heap, t) - heldBy(heap, args[d], t)

\* C32: for IValues holding a tensor or a tensor list, a copy adds one
\* reference to each held tensor and aliases the same tensors, a move leaves
\* the reference counts alone and the source None (an assignment first
\* releases what the destination held); over any sequence of constructions,
\* copies, moves, assignments and destructions every heap payload is deleted
\* once, when the IValue holding it lets go of it, and a tensor is destroyed
\* exactly when its last reference is gone.
C32_ReferenceCounting ==
    /\ []payloadsReleasedOnce
    /\ [][copyAddsOneReference /\ moveKeepsReferences]_vars

\* the second IValue is a copy of the first: two payloads hold the same
\* tensor, which has two references
C32_Witness ==
    /\ lastOp.op = "copy"
    /\ lastOp.arg = <<2, 1>>
    /\ args[1].tag = "Tensor"
    /\ args[2].tag = "Tensor"
    /\ args[1].payload # args[2].payload
    /\ contentOf(heap, args[1]) = contentOf(heap, args[2])
    /\ refsOf(heap, contentOf(heap, args[1])[1]) = 2

-----------------------------------------------------------------------------
(* Dispatcher::call in flight, next to the operations on the registry and   *)
(* on the statistics (SpecInflight)                                         *)
(* Each thread issues one operation on operator add. local[t].handle is the *)
(* pointer findOperator returned to the call of thread t, local[t].inside   *)
(* the Dispatcher method the running kernel is calling and local[t].next    *)
(* the pointer findOperator returned to the call made by the kernel.        *)

InflightOps ==
    {"call", "registerOperator", "deregisterOperator", "debugString", "printDebugInfo",
     "resetCallStats"}

\* printDebugInfo prints what debugString returns: the two run the same
\* steps on the mutexes
callsDebugString(op) == op \in {"debugString", "printDebugInfo"}

\* the kernels registered under Autograd: the redispatching wrapper of
\* main.cpp and kernels whose body calls another Dispatcher method
InflightKernels ==
    {"add_autograd_kernel", "finding_kernel", "registering_kernel",
     "deregistering_kernel", "add_cpu_kernel"}

\* the Dispatcher method the body of a kernel calls, "none" when it calls none
kernelCalls(fn) ==
    CASE fn = "add_autograd_kernel" -> "call"
      [] fn = "finding_kernel" -> "findOperator"
      [] fn = "registering_kernel" -> "registerOperator"
      [] fn = "deregistering_kernel" -> "deregisterOperator"
      [] OTHER -> "none"

\* the mutant of unlock: a lock_guard that keeps the mutex
unlockNever(mutex) == mutex

\* ~lock_guard: the mutex is free again
unlock(mutex) == NoThread

\* the key set of the arguments of the top-level call (a CPU tensor that
\* requires grad) and of the call made by the wrapper
inflightKeySet(nested) == IF nested THEN {"CPU"} ELSE {"Autograd", "CPU"}

\* handle->call(args) on a live handle: the kernel that starts to run, or
\* "NoKernel" for the exception
startedKernel(table, ks) ==
    IF findKernel(table, ks) = nullptr THEN "NoKernel" ELSE findKernel(table, ks).fn

\* handle->call(args) through pointer h: on a destroyed handle the read of
\* dispatch_table_ is undefined; the freed memory may still hold the old
\* table, hold the table of a handle allocated since, or make the process
\* crash
startOutcomes(objects, h, ks) ==
    IF h \in DOMAIN objects THEN {startedKernel(objects[h], ks)}
    ELSE InflightKernels \cup {"NoKernel", "crash"}

\* the kernel object lives in the dispatch table of the handle; a kernel
\* that goes on running after its handle was destroyed may crash
returnOutcomes(objects, h) ==
    IF h \in DOMAIN objects THEN {"returns"} ELSE {"returns", "crash"}

\* the positions of a call between the return of findOperator and the
\* return of the kernel
kernelPositions ==
    {"kernel", "nested_lock", "nested_locked", "nested_kernel", "nested_stats_lock",
     "nested_stats", "return"}

inflightVars == <<registration_callbacks_, cbLog, globalState, args, stack, trace,
                  status, result, lastOp, lastReg>>

\* thread t calls one of the operations on operator add
BeginOp(t, op) ==
    /\ pc[t] = "idle"
    /\ pc' = [pc EXCEPT ![t] = IF op = "resetCallStats" THEN "stats_lock" ELSE "lock"]
    /\ local' = [local EXCEPT ![t] = [NoLocal EXCEPT !.op = op, !.name = "add"]]
    /\ UNCHANGED <<operators_, heap, nextHandle, profiling_enabled_, call_stats_,
                   registry_mutex_, stats_mutex_, inflightVars>>

\* std::lock_guard<std::mutex> lock(registry_mutex_), of the operation of
\* the thread or of the method its kernel calls
LockRegistry(t) ==
    /\ pc[t] \in {"lock", "nested_lock"}
    /\ canLock(registry_mutex_)
    /\ registry_mutex_' = t
    /\ pc' = [pc EXCEPT ![t] = IF pc[t] = "lock" THEN "locked" ELSE "nested_locked"]
    /\ UNCHANGED <<operators_, heap, nextHandle, profiling_enabled_, call_stats_,
                   stats_mutex_, local, inflightVars>>

\* std::lock_guard<std::mutex> lock(stats_mutex_), in updateCallStats,
\* resetCallStats and debugString
LockStats(t) ==
    /\ pc[t] \in {"stats_lock", "nested_stats_lock", "debug_stats_lock"}
    /\ canLock(stats_mutex_)
    /\ stats_mutex_' = t
    /\ pc' = [pc EXCEPT ![t] = CASE pc[t] = "stats_lock" -> "stats"
                                 [] pc[t] = "nested_stats_lock" -> "nested_stats"
                                 [] pc[t] = "debug_stats_lock" -> "debug"]
    /\ UNCHANGED <<operators_, heap, nextHandle, profiling_enabled_, call_stats_,
                   registry_mutex_, local, inflightVars>>

\* findOperator(name) after the lock, called by Dispatcher::call: the pointer
\* is returned and the lock released; call throws on nullptr
FindForCall(t) ==
    /\ pc[t] = "locked"
    /\ local[t].op = "call"
    /\ LET h == IF isRegistered(operators_, local[t].name)
                THEN operators_[local[t].name] ELSE 0
       IN  /\ local' = [local EXCEPT ![t].handle = h]
           /\ pc' = [pc EXCEPT ![t] = IF h = 0 THEN "done" ELSE "kernel"]
    /\ registry_mutex_' = unlock(registry_mutex_)
    /\ UNCHANGED <<operators_, heap, nextHandle, profiling_enabled_, call_stats_,
                   stats_mutex_, inflightVars>>

\* handle->call(args): the kernel is looked up in the table of the handle
\* and starts to run; a kernel whose body calls a Dispatcher method arrives
\* at that method
StartKernel(t) ==
    /\ pc[t] = "kernel"
    /\ \E fn \in startOutcomes(heap, local[t].handle, inflightKeySet(FALSE)) :
           IF fn = "crash" THEN
               /\ pc' = [pc EXCEPT ![t] = "crashed"]
               /\ local' = local
           ELSE IF fn = "NoKernel" THEN
               /\ pc' = [pc EXCEPT ![t] = "done"]
               /\ local' = local
           ELSE IF kernelCalls(fn) = "none" THEN
               /\ pc' = [pc EXCEPT ![t] = "return"]
               /\ local' = local
           ELSE
               /\ pc' = [pc EXCEPT ![t] = "nested_lock"]
               /\ local' = [local EXCEPT ![t].inside = kernelCalls(fn)]
    /\ UNCHANGED <<operators_, heap, nextHandle, profiling_enabled_, call_stats_,
                   registry_mutex_, stats_mutex_, inflightVars>>

\* the method called by the kernel, after its lock: findOperator, or the
\* findOperator of call, which throws on nullptr (the exception leaves the
\* kernel and the call around it)
NestedFind(t) ==
    /\ pc[t] = "nested_locked"
    /\ local[t].inside \in {"findOperator", "call"}
    /\ LET h == IF isRegistered(operators_, local[t].name)
                THEN operators_[local[t].name] ELSE 0
       IN  /\ local' = [local EXCEPT ![t].next = h,
                                     ![t].inside = IF @ = "call" /\ h # 0 THEN @ ELSE "none"]
           /\ pc' = [pc EXCEPT ![t] = IF local[t].inside = "findOperator" THEN "return"
                                      ELSE IF h = 0 THEN "done"
                                      ELSE "nested_kernel"]
    /\ registry_mutex_' = unlock(registry_mutex_)
    /\ UNCHANGED <<operators_, heap, nextHandle, profiling_enabled_, call_stats_,
                   stats_mutex_, inflightVars>>

\* handle->call(ks, args) of the call made by the wrapper: the backend
\* kernel runs and returns
NestedKernel(t) ==
    /\ pc[t] = "nested_kernel"
    /\ \E fn \in startOutcomes(heap, local[t].next, inflightKeySet(TRUE)) :
           pc' = [pc EXCEPT ![t] = IF fn = "crash" THEN "crashed"
                                   ELSE IF fn = "NoKernel" THEN "done"
                                   ELSE IF profiling_enabled_ THEN "nested_stats_lock"
                                   ELSE "return"]
    /\ local' = [local EXCEPT ![t].inside = IF pc'[t] = "return" THEN "none" ELSE @]
    /\ UNCHANGED <<operators_, heap, nextHandle, profiling_enabled_, call_stats_,
                   registry_mutex_, stats_mutex_, inflightVars>>

\* the kernel returns to handle->call and to Dispatcher::call, which goes on
\* to updateCallStats when profiling is enabled
ReturnKernel(t) ==
    /\ pc[t] = "return"
    /\ \E outcome \in returnOutcomes(heap, local[t].handle) :
           pc' = [pc EXCEPT ![t] = IF outcome = "crash" THEN "crashed"
                                   ELSE IF profiling_enabled_ THEN "stats_lock"
                                   ELSE "done"]
    /\ UNCHANGED <<operators_, heap, nextHandle, profiling_enabled_, call_stats_,
                   registry_mutex_, stats_mutex_, local, inflightVars>>

\* registerOperator after the lock, called by the thread or by its kernel
\* (no callback is registered here): the handle found, or a new one
RegisterLocked(t) ==
    /\ \/ pc[t] = "locked" /\ local[t].op = "registerOperator"
       \/ pc[t] = "nested_locked" /\ local[t].inside = "registerOperator"
    /\ IF isRegistered(operators_, local[t].name)
       THEN UNCHANGED <<operators_, heap, nextHandle>>
       ELSE /\ nextHandle < MaxHandles
            /\ nextHandle' = nextHandle + 1
            /\ operators_' = storeHandle(operators_, local[t].name, nextHandle + 1)
            /\ heap' = heap @@ ((nextHandle + 1) :> EmptyMap)
    /\ registry_mutex_' = unlock(registry_mutex_)
    /\ pc' = [pc EXCEPT ![t] = IF pc[t] = "locked" THEN "done" ELSE "return"]
    /\ local' = [local EXCEPT ![t].inside = "none"]
    /\ UNCHANGED <<profiling_enabled_, call_stats_, stats_mutex_, inflightVars>>

\* deregisterOperator after the lock, called by the thread or by its kernel:
\* operators_.erase(it) destroys the handle
DeregisterLocked(t) ==
    /\ \/ pc[t] = "locked" /\ local[t].op = "deregisterOperator"
       \/ pc[t] = "nested_locked" /\ local[t].inside = "deregisterOperator"
    /\ operators_' = eraseOperator(operators_, local[t].name)
    /\ heap' = ownedHandles(heap, operators_')
    /\ registry_mutex_' = unlock(registry_mutex_)
    /\ pc' = [pc EXCEPT ![t] = IF pc[t] = "locked" THEN "done" ELSE "return"]
    /\ local' = [local EXCEPT ![t].inside = "none"]
    /\ UNCHANGED <<nextHandle, profiling_enabled_, call_stats_, stats_mutex_, inflightVars>>

\* debugString after the lock on registry_mutex_: it lists the operators
\* and, when profiling is enabled, goes on to the lock on stats_mutex_,
\* holding the first; otherwise it returns
DebugStringLocked(t) ==
    /\ pc[t] = "locked"
    /\ callsDebugString(local[t].op)
    /\ IF profiling_enabled_
       THEN /\ pc' = [pc EXCEPT ![t] = "debug_stats_lock"]
            /\ registry_mutex_' = registry_mutex_
       ELSE /\ pc' = [pc EXCEPT ![t] = "done"]
            /\ registry_mutex_' = unlock(registry_mutex_)
    /\ UNCHANGED <<operators_, heap, nextHandle, profiling_enabled_, call_stats_,
                   stats_mutex_, local, inflightVars>>

\* debugString with both locks: it reads the statistics; stats_lock ends
\* with the block of the statistics, registry_mutex_ stays held
DebugString(t) ==
    /\ pc[t] = "debug"
    /\ stats_mutex_' = unlock(stats_mutex_)
    /\ pc' = [pc EXCEPT ![t] = "debug_after_stats"]
    /\ UNCHANGED <<operators_, heap, nextHandle, profiling_enabled_, call_stats_,
                   registry_mutex_, local, inflightVars>>

\* the return of debugString after the block of the statistics: the
\* lock_guard on registry_mutex_ ends
DebugStringReturn(t) ==
    /\ pc[t] = "debug_after_stats"
    /\ registry_mutex_' = unlock(registry_mutex_)
    /\ pc' = [pc EXCEPT ![t] = "done"]
    /\ UNCHANGED <<operators_, heap, nextHandle, profiling_enabled_, call_stats_,
                   stats_mutex_, local, inflightVars>>

\* updateCallStats(name, key) after its lock, of the call of the thread or of
\* the call made by its kernel
UpdateCallStats(t) ==
    /\ \/ pc[t] = "stats" /\ local[t].op = "call"
       \/ pc[t] = "nested_stats"
    /\ call_stats_' = updateCallStats(call_stats_, local[t].name,
                                      highestPriorityKey(inflightKeySet(pc[t] = "nested_stats")))
    /\ stats_mutex_' = unlock(stats_mutex_)
    /\ pc' = [pc EXCEPT ![t] = IF pc[t] = "stats" THEN "done" ELSE "return"]
    /\ local' = [local EXCEPT ![t].inside = "none"]
    /\ UNCHANGED <<operators_, heap, nextHandle, profiling_enabled_, registry_mutex_,
                   inflightVars>>

\* resetCallStats after its lock
ResetCallStats(t) ==
    /\ pc[t] = "stats"
    /\ local[t].op = "resetCallStats"
    /\ call_stats_' = EmptyMap
    /\ stats_mutex_' = unlock(stats_mutex_)
    /\ pc' = [pc EXCEPT ![t] = "done"]
    /\ UNCHANGED <<operators_, heap, nextHandle, profiling_enabled_, registry_mutex_,
                   local, inflightVars>>

\* enableProfiling(enabled): profiling_enabled_ = enabled, a plain bool
\* written under no lock; a call or a debugString of another thread reads
\* the flag once, before or after this write
EnableProfiling(t, enabled) ==
    /\ pc[t] = "idle"
    /\ profiling_enabled_' = enabled
    /\ pc' = [pc EXCEPT ![t] = "done"]
    /\ local' = [local EXCEPT ![t] = [NoLocal EXCEPT !.op = "enableProfiling",
                                                     !.name = "add"]]
    /\ UNCHANGED <<operators_, heap, nextHandle, call_stats_, registry_mutex_,
                   stats_mutex_, inflightVars>>

\* operator add registered with a CPU kernel and one of the kernels under
\* Autograd; profiling enabled or not
InitInflight ==
    /\ operators_ = ("add" :> 1)
    /\ heap \in {(1 :> ("Autograd" :> fn @@ "CPU" :> "add_cpu_kernel")) :
                     fn \in InflightKernels}
    /\ nextHandle = 1
    /\ registration_callbacks_ = <<>>
    /\ cbLog = <<>>
    /\ profiling_enabled_ \in BOOLEAN
    /\ call_stats_ = EmptyMap
    /\ globalState = [autograd_enabled_ |-> FALSE, tracing_enabled_ |-> FALSE,
                      profiling_enabled_ |-> FALSE]
    /\ args = <<>>
    /\ stack = <<>>
    /\ trace = <<>>
    /\ status = "idle"
    /\ result = NoResult
    /\ lastOp = NoOp
    /\ lastReg = [n \in OperatorNames |-> "none"]
    /\ pc = [t \in Threads |-> "idle"]
    /\ registry_mutex_ = NoThread
    /\ stats_mutex_ = NoThread
    /\ local = [t \in Threads |-> NoLocal]

StepInflight(t) ==
    \/ \E op \in InflightOps : BeginOp(t, op)
    \/ LockRegistry(t)
    \/ LockStats(t)
    \/ FindForCall(t)
    \/ StartKernel(t)
    \/ NestedFind(t)
    \/ NestedKernel(t)
    \/ ReturnKernel(t)
    \/ RegisterLocked(t)
    \/ DeregisterLocked(t)
    \/ DebugStringLocked(t)
    \/ DebugString(t)
    \/ DebugStringReturn(t)
    \/ UpdateCallStats(t)
    \/ ResetCallStats(t)
    \/ \E enabled \in BOOLEAN : EnableProfiling(t, enabled)

NextInflight == \E t \in Threads : StepInflight(t)

SpecInflight == InitInflight /\ [][NextInflight]_vars

\* the same with profiling enabled and the redispatching wrapper of main.cpp
\* under Autograd
InitLocks ==
    /\ InitInflight
    /\ profiling_enabled_
    /\ heap[1]["Autograd"] = "add_autograd_kernel"

\* every thread that can take a step eventually takes one
SpecLocks ==
    /\ InitLocks
    /\ [][NextInflight]_vars
    /\ \A t \in Threads : WF_vars(StepInflight(t))

\* C33: while a call is between the return of its findOperator and the
\* return of the kernel it selected, the handle it looked up is alive,
\* whatever deregisterOperator calls other threads or the kernel make.
C33_HandleOutlivesCall ==
    \A t \in Threads :
        pc[t] \in kernelPositions => local[t].handle \in DOMAIN heap

\* C34: a thread holds registry_mutex_ only inside findOperator and the
\* other registry methods, never at the positions of a call where its
\* kernel runs: the kernel finds the mutex not held by its own thread when
\* it calls call, findOperator or registerOperator, and a thread waiting
\* for the mutex waits for a thread inside a registry method.
C34_NoRegistryLockWhileKernelRuns ==
    \A t \in Threads :
        /\ pc[t] \in {"kernel", "nested_lock", "nested_kernel", "nested_stats_lock",
                      "nested_stats", "return"}
              => registry_mutex_ # t
        /\ registry_mutex_ = t
              => pc[t] \in {"locked", "nested_locked", "debug_stats_lock", "debug",
                            "debug_after_stats"}
        /\ (pc[t] = "nested_locked" /\ local[t].inside \in {"call", "findOperator",
                                                            "registerOperator"})
              => registry_mutex_ = t

\* the wrapper kernel of thread t1 has called call and is inside its
\* findOperator, holding the mutex, while t2 waits to register
C34_Witness ==
    /\ pc["t1"] = "nested_locked"
    /\ local["t1"].inside = "call"
    /\ registry_mutex_ = "t1"
    /\ pc["t2"] = "lock"
    /\ local["t2"].op = "registerOperator"

\* a thread holding stats_mutex_ is not at a lock on registry_mutex_, and
\* only debugString takes stats_mutex_ while it holds registry_mutex_
registryBeforeStats ==
    \A t \in Threads :
        /\ stats_mutex_ = t => pc[t] \in {"stats", "nested_stats", "debug"}
        /\ (stats_mutex_ = t /\ registry_mutex_ = t) => pc[t] = "debug"
        /\ (registry_mutex_ = t /\ pc[t] \in {"stats_lock", "nested_stats_lock",
                                              "debug_stats_lock", "stats", "nested_stats",
                                              "debug"})
              => callsDebugString(local[t].op)

\* the process has run into the undefined behaviour of a call whose handle
\* was destroyed
crashed == \E t \in Threads : pc[t] = "crashed"

\* C35: the two mutexes are only nested registry_mutex_ first, stats_mutex_
\* second, and under every interleaving of call, debugString,
\* resetCallStats, registerOperator and deregisterOperator there comes a
\* moment from which on no thread is inside an operation: each operation
\* begun has returned (or thrown); the kernels return unless the process
\* crashes in a call whose handle was destroyed under it (C33).
C35_LocksNestedAndOperationsComplete ==
    /\ []registryBeforeStats
    /\ <>[](crashed \/ \A t \in Threads : pc[t] \in {"idle", "done"})

\* t1 is inside debugString and holds both mutexes; t2 waits in
\* updateCallStats and t3 waits in deregisterOperator
C35_Witness ==
    /\ pc["t1"] = "debug"
    /\ registry_mutex_ = "t1"
    /\ stats_mutex_ = "t1"
    /\ pc["t2"] = "stats_lock"
    /\ local["t2"].op = "call"
    /\ pc["t3"] = "lock"
    /\ local["t3"].op = "deregisterOperator"

====
